---- MODULE Spec2Model ----
(***************************************************************************)
(* State-machine model of the connection/substream lifecycle core of       *)
(* litep2p:                                                                *)
(*   - HandshakeService   (src/protocol/notification/negotiation.rs)       *)
(*   - ProtocolInfo       (src/protocol/mod.rs)                            *)
(*   - QuicConnection     (src/transport/quic/connection.rs)               *)
(*   - WebSocketTransport (src/transport/websocket/mod.rs)                 *)
(***************************************************************************)
EXTENDS Integers, Sequences, FiniteSets, TLC

(***************************************************************************)
(* Bounds of the model.                                                    *)
(***************************************************************************)
NumPeers == 2
MaxSubstreams == 2
MaxEvents == 3
MaxStreams == 2
MaxConnections == 2
MaxIncoming == 1
ChanCap == 1

Peers == 1..NumPeers

(***************************************************************************)
(* HandshakeService: data.                                                 *)
(***************************************************************************)
Outbound == "Outbound"
Inbound == "Inbound"
InboundAccepting == "InboundAccepting"

\* enum Direction
Direction == {Outbound, Inbound, InboundAccepting}

\* enum OutboundHandshakeState
OutboundHandshakeState == {"SendHandshake", "SinkReady", "HandshakeSent", "ReadHandshake"}

\* keys of HandshakeService::substreams
Keys == Peers \X Direction

\* payloads the local node may be configured with (HandshakeService::new, set_handshake)
LocalPayloads == {<<1, 2, 3>>, <<4>>}

\* payloads a remote peer may answer with
RemotePayloads == {<<9, 9>>, <<7>>}

\* what a Sink/Stream primitive of a substream answers when the entry in `state`
\* asks it: Sink::poll_ready, Sink::start_send, Sink::poll_flush, Stream::poll_next
Answers(state) ==
  CASE state = "SendHandshake" -> {"pending", "ready", "error"}
    [] state = "SinkReady" -> {"ready", "error"}
    [] state = "HandshakeSent" -> {"pending", "ready", "error"}
    [] state = "ReadHandshake" -> {"pending", "ready", "error", "closed"}

VARIABLES
  handshake,    \* HandshakeService::handshake
  substreams,   \* HandshakeService::substreams : key -> [sub, state]
  ready,        \* HandshakeService::ready : FIFO of [peer, dir, handshake]
  panicked,     \* poll_next hit todo!() or expect("peer to exist")
  handed,       \* every substream handed to the engine, by id: [key, remote, first],
                \* `first` being the state its entry was inserted in
  io,           \* by substream id: what the primitive its entry waits on answers now
                \* (the primitives further down its path answer when they are asked)
  written,      \* by substream id: the payloads start_send accepted
  answered,     \* by substream id: the primitives of the stream that poll_next called
                \* and that answered Ready(Ok) or Ok, in the order of the calls
  events,       \* every item poll_next has returned in Poll::Ready(Some(..)), each
                \* noted with the direction of the entry it is about
  completed,    \* [key, ok] in the order the entries reached a terminal outcome
  ret           \* what the latest poll_next returned; cleared as soon as a stream's
                \* readiness or the set of registered entries changes. `loop` tells
                \* that the call ran the progress loop, `again` that the call before
                \* it had returned Pending with nothing changed in between

hsVars == <<handshake, substreams, ready, panicked, handed, io, written, answered, events,
           completed, ret>>

(***************************************************************************)
(* ProtocolInfo and QuicConnection: data.                                  *)
(***************************************************************************)
\* the protocol names installed in the table, and one that is not
Installed == {"a", "b"}

ProtocolNames == Installed \cup {"x"}

VARIABLES
  protocols,           \* ProtocolInfo::protocols : name -> the channel of its handler
  chan,                \* by channel: the ConnectionEvents sent and not yet received
  rxOpen,              \* by channel: the handler still holds the Receiver
  rx,                  \* ProtocolInfo::rx : the commands sent by the handlers
  txAlive,             \* some handler still holds a Sender of rx
  pending_substreams,  \* QuicConnection::pending_substreams : future id -> future
  made,                \* the number of futures pushed so far
  next_substream_id,   \* QuicConnection::next_substream_id
  conn,                \* the underlying connection: "open" or "ended"
  pc,                  \* QuicConnection::start: "select", "report" (suspended in a
                       \* report_* call), "exited"
  sending,             \* the event the suspended report_* call is sending, and where
  reports,             \* every report_* call that has returned, with what it returned
  closedReported       \* the number of report_connection_closed calls

cnVars == <<protocols, chan, rxOpen, rx, txAlive, pending_substreams, made,
            next_substream_id, conn, pc, sending, reports, closedReported>>

(***************************************************************************)
(* WebSocketTransport: data.                                               *)
(***************************************************************************)
VARIABLES
  pending_dials,            \* WebSocketTransport::pending_dials : id -> address
  pending_connections,      \* WebSocketTransport::pending_connections : future id -> future
  pending_raw_connections,  \* WebSocketTransport::pending_raw_connections : future id -> future
  opened_raw,               \* WebSocketTransport::opened_raw : id -> address
  canceled,                 \* WebSocketTransport::canceled
  pending_open,             \* WebSocketTransport::pending_open (the ids)
  listener,                 \* what WebSocketListener yields next, in order
  next_connection_id,       \* TransportHandle::next_connection_id
  incoming,                 \* the number of connections and errors the listener has had
  pushed,                   \* the number of futures pushed so far
  started,                  \* the ids whose connection event loop was started
  wsEvents,                 \* every TransportEvent poll_next has returned
  wsEnded,                  \* poll_next has returned Poll::Ready(None)
  inflightCanceled,         \* the ids canceled while their dial or negotiation was
                            \* in flight, its result not yet polled
  rawCanceled,              \* the ids canceled while their open was in flight, its
                            \* result not yet polled
  rejected,                 \* the ids for which reject has returned Ok
  refused                   \* the ids for which dial has returned an error

wsVars == <<pending_dials, pending_connections, pending_raw_connections, opened_raw,
            canceled, pending_open, listener, next_connection_id, incoming, pushed, started,
            wsEvents, wsEnded, inflightCanceled, rawCanceled, rejected, refused>>

vars == <<hsVars, cnVars, wsVars>>

notHS == <<cnVars, wsVars>>

notCN == <<hsVars, wsVars>>

notWS == <<hsVars, cnVars>>

NoCall == [t |-> "none", loop |-> FALSE, again |-> FALSE]

\* HandshakeService::new
InitHS ==
  /\ handshake \in LocalPayloads
  /\ substreams = <<>>
  /\ ready = <<>>
  /\ panicked = FALSE
  /\ handed = <<>>
  /\ io = <<>>
  /\ written = <<>>
  /\ answered = <<>>
  /\ events = <<>>
  /\ completed = <<>>
  /\ ret = NoCall

(***************************************************************************)
(* HandshakeService: registration and removal.                             *)
(***************************************************************************)
\* HashMap::insert of a fresh substream under `key`, replacing what was there, for as
\* long as fewer than `limit` substreams were handed to the engine
InsertUpTo(limit, key, state, remote) ==
  LET s == Len(handed) + 1 IN
  /\ ~panicked
  /\ Len(handed) < limit
  /\ substreams' = [k \in DOMAIN substreams \cup {key} |->
                      IF k = key THEN [sub |-> s, state |-> state] ELSE substreams[k]]
  /\ handed' = Append(handed, [key |-> key, remote |-> remote, first |-> state])
  /\ io' = Append(io, "pending")
  /\ written' = Append(written, <<>>)
  /\ answered' = Append(answered, <<>>)
  /\ ret' = NoCall
  /\ UNCHANGED <<handshake, ready, panicked, events, completed, notHS>>

Insert(key, state, remote) == InsertUpTo(MaxSubstreams, key, state, remote)

negotiate_outbound(peer, remote) == Insert(<<peer, Outbound>>, "SendHandshake", remote)

\* the entry is registered as one that answers at once
accept_inbound_Sending(peer, remote) ==
  Insert(<<peer, InboundAccepting>>, "SendHandshake", remote)

accept_inbound(peer, remote) == Insert(<<peer, InboundAccepting>>, "ReadHandshake", remote)

read_handshake(peer, remote) == Insert(<<peer, Inbound>>, "ReadHandshake", remote)

send_handshake(peer, remote) == Insert(<<peer, Inbound>>, "SendHandshake", remote)

set_handshake(h) ==
  /\ ~panicked
  /\ h # handshake
  /\ handshake' = h
  /\ UNCHANGED <<substreams, ready, panicked, handed, io, written, answered, events, completed,
                 ret, notHS>>

\* HashMap::remove of `key`
Remove(key) ==
  /\ ~panicked
  /\ key \in DOMAIN substreams
  /\ substreams' = [k \in DOMAIN substreams \ {key} |-> substreams[k]]
  /\ ret' = NoCall
  /\ UNCHANGED <<handshake, ready, panicked, handed, io, written, answered, events, completed,
                 notHS>>

remove_outbound(peer) == Remove(<<peer, Outbound>>)

remove_inbound(peer) == Remove(<<peer, Inbound>>)

is_empty == DOMAIN substreams = {}

(***************************************************************************)
(* The environment: the primitive an entry waits on changes its answer.    *)
(***************************************************************************)
\* the keys queued in `ready`
Queued(q) == {<<q[i].peer, q[i].dir>> : i \in 1..Len(q)}

IoChange(key, v) ==
  /\ ~panicked
  /\ key \in DOMAIN substreams
  /\ key \notin Queued(ready)
  /\ v \in Answers(substreams[key].state)
  /\ io[substreams[key].sub] # v
  /\ io' = [io EXCEPT ![substreams[key].sub] = v]
  /\ ret' = NoCall
  /\ UNCHANGED <<handshake, substreams, ready, panicked, handed, written, answered, events,
                 completed, notHS>>

(***************************************************************************)
(* HandshakeService::poll_next.                                            *)
(***************************************************************************)
\* where the inner `loop` of poll_next leaves one entry
Stop(state, out, wrote, read, now, did) ==
  [state |-> state, out |-> out, wrote |-> wrote, read |-> read, now |-> now, did |-> did]

\* the state is assigned before the primitive has answered
OnPending_Advanced(state, wrote, did) ==
  Stop(CASE state = "SendHandshake" -> "SinkReady"
         [] state = "HandshakeSent" -> "ReadHandshake"
         [] OTHER -> "SendHandshake",
       "pending", wrote, FALSE, "pending", did)

\* `Poll::Pending => continue 'outer`
OnPending(state, wrote, did) == Stop(state, "pending", wrote, FALSE, "pending", did)

\* the inner `loop` of poll_next for one entry: advance `state` for as long as the
\* primitives answer Ready. `as` holds the answers the primitive of `state` may give:
\* its present answer for the one the entry was waiting on, any answer after that.
\* The result is the set of places the loop can leave the entry at.
RECURSIVE Drive(_, _, _, _, _)
Drive(dir, state, as, wrote, did) ==
  UNION {
    CASE state = "SendHandshake" ->
           IF a = "ready"
             THEN Drive(dir, "SinkReady", Answers("SinkReady"), wrote,
                        Append(did, "poll_ready"))
           ELSE IF a = "error" THEN {Stop(state, "error", wrote, FALSE, a, did)}
           ELSE {OnPending(state, wrote, did)}
      [] state = "SinkReady" ->
           IF a = "ready"
             THEN Drive(dir, "HandshakeSent", Answers("HandshakeSent"), TRUE,
                        Append(did, "start_send"))
           ELSE {Stop(state, "error", wrote, FALSE, a, did)}
      [] state = "HandshakeSent" ->
           IF a = "ready"
             THEN IF dir = Outbound
                    THEN Drive(dir, "ReadHandshake", Answers("ReadHandshake"), wrote,
                               Append(did, "poll_flush"))
                    ELSE {Stop(state, "done", wrote, FALSE, a, Append(did, "poll_flush"))}
           ELSE IF a = "error" THEN {Stop(state, "error", wrote, FALSE, a, did)}
           ELSE {OnPending(state, wrote, did)}
      [] state = "ReadHandshake" ->
           IF a = "ready"
             THEN IF dir = InboundAccepting
                    THEN Drive(dir, "SendHandshake", Answers("SendHandshake"), wrote,
                               Append(did, "poll_next"))
                    ELSE {Stop(state, "done", wrote, TRUE, a, Append(did, "poll_next"))}
           ELSE IF a \in {"error", "closed"} THEN {Stop(state, "error", wrote, FALSE, a, did)}
           ELSE {OnPending(state, wrote, did)}
    : a \in as }

\* the item is put at the front of the queue
PushReady_Front(q, item) == <<item>> \o q

\* VecDeque::push_back on `ready`
PushReady(q, item) == Append(q, item)

\* the queued payload is the local one
Queue_Local(key, read, remote) ==
  [peer |-> key[1], dir |-> key[2], handshake |-> IF read THEN handshake ELSE <<>>]

\* the item an entry is queued with: `vec![]` after a flush, the payload read otherwise
Queue(key, read, remote) ==
  [peer |-> key[1], dir |-> key[2], handshake |-> IF read THEN remote ELSE <<>>]

\* the payload the engine was built with in the two-peer scenario is sent, whatever
\* was set since
StartSend_Initial(w, payload) == Append(w, <<1, 2, 3>>)

\* `pinned.start_send(inner.handshake.clone().into())` returns Ok: the stream has the
\* payload
StartSend(w, payload) == Append(w, payload)

\* one entry of the `'outer` loop: the entry under `key` left at `r`
Visit(acc, key, r) ==
  LET e == acc.subs[key]
      item == Queue(key, r.read, handed[e.sub].remote)
      acc1 == [acc EXCEPT !.subs[key].state = r.state,
                          !.io[e.sub] = r.now,
                          !.written[e.sub] = IF r.wrote THEN StartSend(@, handshake) ELSE @,
                          !.answered[e.sub] = @ \o r.did]
  IN CASE r.out = "error" -> [acc1 EXCEPT !.completed = Append(@, [key |-> key, ok |-> FALSE]),
                                          !.err = <<key>>]
       [] r.out = "done" -> [acc1 EXCEPT !.completed = Append(@, [key |-> key, ok |-> TRUE]),
                                         !.ready = PushReady(@, item)]
       [] OTHER -> acc1

\* the `'outer` loop of poll_next over `order`, one iteration order of the HashMap;
\* acc = [subs, ready, io, written, answered, completed, err], err being <<key>> once the entry
\* under key failed, which ends the loop. The result is the set of possible outcomes.
RECURSIVE Progress(_, _)
Progress(order, acc) ==
  IF order = <<>> \/ acc.err # <<>> THEN {acc}
  ELSE LET key == Head(order)
           e == acc.subs[key]
       IN UNION {Progress(Tail(order), Visit(acc, key, r)) :
                   r \in Drive(key[2], e.state, {acc.io[e.sub]}, FALSE, <<>>)}

\* the iteration orders of a HashMap holding the keys S
Orders(S) ==
  {o \in [1..Cardinality(S) -> S] : \A i, j \in 1..Cardinality(S) : i # j => o[i] # o[j]}

\* VecDeque::pop_front on `ready`
PopFront(q) == [item |-> Head(q), rest |-> Tail(q)]

\* `if let Some(..) = inner.ready.pop_front()`: `first` tells the block before the
\* progress loop (lines 214-249) from the one after it (lines 340-382)
Deliver(subs, q, first, loop, again) ==
  LET p == PopFront(q)
      it == p.item
      key == <<it.peer, it.dir>>
  IN IF (it.dir = InboundAccepting /\ first) \/ key \notin DOMAIN subs
       THEN \* todo!() or expect("peer to exist")
            /\ panicked' = TRUE
            /\ ready' = p.rest
            /\ substreams' = subs
            /\ events' = events
            /\ ret' = [t |-> "panic", loop |-> loop, again |-> again,
                        why |-> IF it.dir = InboundAccepting /\ first
                                  THEN "todo" ELSE "expect"]
       ELSE /\ panicked' = FALSE
            /\ ready' = p.rest
            /\ substreams' = [k \in DOMAIN subs \ {key} |-> subs[k]]
            /\ LET ev == [type |-> CASE it.dir = Outbound -> "OutboundNegotiated"
                                     [] it.dir = Inbound -> "InboundNegotiated"
                                     [] OTHER -> "InboundAccepted",
                          peer |-> it.peer,
                          handshake |-> IF it.dir = InboundAccepting THEN <<>> ELSE it.handshake,
                          sub |-> subs[key].sub,
                          dir |-> it.dir]
               IN /\ events' = Append(events, ev)
                  /\ ret' = [t |-> "ready", ev |-> ev, loop |-> loop, again |-> again]

poll_next ==
  /\ ~panicked
  /\ Len(events) < MaxEvents
  /\ IF ready # <<>>
       THEN /\ Deliver(substreams, ready, TRUE, FALSE, ret.t = "pending")
            /\ UNCHANGED <<io, written, answered, completed>>
     ELSE IF DOMAIN substreams = {}
       THEN /\ ret' = [t |-> "pending", loop |-> FALSE, again |-> ret.t = "pending"]
            /\ UNCHANGED <<substreams, ready, panicked, io, written, answered, events, completed>>
     ELSE \E order \in Orders(DOMAIN substreams) :
          \E acc \in Progress(order, [subs |-> substreams, ready |-> ready, io |-> io,
                                      written |-> written, answered |-> answered,
                                      completed |-> completed, err |-> <<>>]) :
               /\ written' = acc.written
               /\ answered' = acc.answered
               /\ io' = acc.io
               /\ completed' = acc.completed
               /\ IF acc.err # <<>>
                    THEN LET ev == [type |-> "OutboundNegotiationError",
                                    peer |-> acc.err[1][1], handshake |-> <<>>, sub |-> 0,
                                    dir |-> acc.err[1][2]]
                         IN /\ substreams' = acc.subs
                            /\ ready' = acc.ready
                            /\ events' = Append(events, ev)
                            /\ ret' = [t |-> "ready", ev |-> ev, loop |-> TRUE,
                                        again |-> ret.t = "pending"]
                            /\ UNCHANGED panicked
                  ELSE IF acc.ready # <<>>
                    THEN Deliver(acc.subs, acc.ready, FALSE, TRUE, ret.t = "pending")
                  ELSE /\ substreams' = acc.subs
                       /\ ret' = [t |-> "pending", loop |-> TRUE, again |-> ret.t = "pending"]
                       /\ UNCHANGED <<ready, panicked, events>>
  /\ UNCHANGED <<handshake, handed, notHS>>


(***************************************************************************)
(* ProtocolInfo (the dispatcher).                                          *)
(***************************************************************************)
\* ProtocolInfo::new: the table as constructed, every channel empty
InitInfo ==
  /\ protocols = [name \in Installed |-> name]
  /\ chan = [c \in Installed |-> <<>>]
  /\ rxOpen = [c \in Installed |-> TRUE]
  /\ rx = <<>>
  /\ txAlive = TRUE

\* the entry that was looked up is taken out of the table
GetMut_Removing(name) == [n \in DOMAIN protocols \ {name} |-> protocols[n]]

\* the table after `self.protocols.get_mut(&protocol)`: the lookup borrows the map
\* mutably, and only to call `send` on the Sender it finds
GetMut(name) == protocols

\* the lookup answers another installed protocol's channel for an unknown name
Lookup_Fallback(name) ==
  IF name \in DOMAIN protocols THEN <<protocols[name]>> ELSE <<protocols["a"]>>

\* `self.protocols.get_mut(&protocol)`: <<channel>> or <<>>
Lookup(name) == IF name \in DOMAIN protocols THEN <<protocols[name]>> ELSE <<>>

\* a report_* call returns
Returned(log, call) == log \cup {call}

\* the event is handed to every handler
Route_Broadcast(ch, ev) == [c \in DOMAIN chan |-> Append(chan[c], ev)]

\* the event is queued on the channel `ch`
Route(ch, ev) == [chan EXCEPT ![ch] = Append(@, ev)]

\* the event is thrown away when the channel has no room
Send_Dropping(ch, ev, call) ==
  IF ~rxOpen[ch]
    THEN /\ reports' = Returned(reports, [call EXCEPT !.result = "ChannelClosed"])
         /\ UNCHANGED <<chan, pc, sending>>
  ELSE /\ chan' = IF Len(chan[ch]) < ChanCap THEN Route(ch, ev) ELSE chan
       /\ reports' = Returned(reports, [call EXCEPT !.result = "Ok"])
       /\ UNCHANGED <<pc, sending>>

\* tokio `Sender::send(..).await` as far as it gets without suspending: an error if
\* the receiver is gone, the event queued if there is room, suspended otherwise
Send(ch, ev, call) ==
  IF ~rxOpen[ch]
    THEN /\ reports' = Returned(reports, [call EXCEPT !.result = "ChannelClosed"])
         /\ UNCHANGED <<chan, pc, sending>>
  ELSE IF Len(chan[ch]) < ChanCap
    THEN /\ chan' = Route(ch, ev)
         /\ reports' = Returned(reports, [call EXCEPT !.result = "Ok"])
         /\ UNCHANGED <<pc, sending>>
  ELSE /\ pc' = "report"
       /\ sending' = <<[ch |-> ch, ev |-> ev, call |-> [call EXCEPT !.suspended = TRUE]]>>
       /\ UNCHANGED <<chan, reports>>

\* a report for a name that is not in the table ends the connection event loop
Report_Fatal(name, ev) ==
  LET call == [name |-> name, ev |-> ev, result |-> "none", suspended |-> FALSE,
               full |-> \A c \in DOMAIN chan : Len(chan[c]) = ChanCap]
      found == Lookup(name)
  IN /\ protocols' = GetMut(name)
     /\ IF found = <<>>
          THEN /\ reports' = Returned(reports, [call EXCEPT !.result = "ProtocolNotSupported"])
               /\ pc' = "exited"
               /\ UNCHANGED <<chan, sending>>
          ELSE Send(found[1], ev, call)

\* report_substream_open / report_substream_open_failure up to their first suspension;
\* `ev` is the ConnectionEvent to send
Report(name, ev) ==
  LET call == [name |-> name, ev |-> ev, result |-> "none", suspended |-> FALSE,
               full |-> \A c \in DOMAIN chan : Len(chan[c]) = ChanCap]
      found == Lookup(name)
  IN /\ protocols' = GetMut(name)
     /\ IF found = <<>>
          THEN /\ reports' = Returned(reports, [call EXCEPT !.result = "ProtocolNotSupported"])
               /\ UNCHANGED <<chan, pc, sending>>
          ELSE Send(found[1], ev, call)

report_substream_open(name, substream) ==
  Report(name, [type |-> "SubstreamOpened", substream |-> substream])

\* the failure is reported without the identifier of the substream it is about
report_substream_open_failure_Anonymous(name, substream_id, error) ==
  Report(name, [type |-> "SubstreamOpenFailure", substream |-> 0, error |-> error])

report_substream_open_failure(name, substream_id, error) ==
  Report(name, [type |-> "SubstreamOpenFailure", substream |-> substream_id, error |-> error])

\* the suspended `send(..).await` completes: room was made, or the receiver is gone
ReportResume ==
  /\ pc = "report"
  /\ LET s == sending[1] IN
       \/ /\ ~rxOpen[s.ch]
          /\ reports' = Returned(reports, [s.call EXCEPT !.result = "ChannelClosed"])
          /\ UNCHANGED chan
       \/ /\ rxOpen[s.ch]
          /\ Len(chan[s.ch]) < ChanCap
          /\ chan' = Route(s.ch, s.ev)
          /\ reports' = Returned(reports, [s.call EXCEPT !.result = "Ok"])
  /\ pc' = "select"
  /\ sending' = <<>>
  /\ UNCHANGED <<protocols, rxOpen, rx, txAlive, pending_substreams, made,
                 next_substream_id, conn, closedReported, notCN>>

(***************************************************************************)
(* The protocol handlers.                                                  *)
(***************************************************************************)
\* a handler takes the next event from its channel
HandlerRecv(c) ==
  /\ pc # "exited"
  /\ rxOpen[c]
  /\ chan[c] # <<>>
  /\ chan' = [chan EXCEPT ![c] = Tail(@)]
  /\ UNCHANGED <<protocols, rxOpen, rx, txAlive, pending_substreams, made,
                 next_substream_id, conn, pc, sending, reports, closedReported, notCN>>

\* a handler exits: its Receiver is dropped, and so is its Sender of commands (what
\* the channel held is never received; it stays recorded in `chan`)
HandlerExit(c) ==
  /\ pc # "exited"
  /\ rxOpen[c]
  /\ rxOpen' = [rxOpen EXCEPT ![c] = FALSE]
  /\ txAlive' = \E d \in DOMAIN rxOpen : d # c /\ rxOpen[d]
  /\ UNCHANGED <<protocols, chan, rx, pending_substreams, made, next_substream_id, conn,
                 pc, sending, reports, closedReported, notCN>>

\* another connection, which holds a clone of the same Sender, queues an event
OtherConnectionSends(c) ==
  /\ pc # "exited"
  /\ rxOpen[c]
  /\ Len(chan[c]) < ChanCap
  /\ chan' = [chan EXCEPT ![c] = Append(@, [type |-> "Other"])]
  /\ UNCHANGED <<protocols, rxOpen, rx, txAlive, pending_substreams, made,
                 next_substream_id, conn, pc, sending, reports, closedReported, notCN>>

\* a handler asks for a substream of protocol `name`
HandlerOpen(c, name) ==
  /\ pc # "exited"
  /\ rxOpen[c]
  /\ made + Len(rx) < MaxStreams
  /\ rx' = Append(rx, [protocol |-> name, substream_id |-> made + Len(rx) + 1])
  /\ UNCHANGED <<protocols, chan, rxOpen, txAlive, pending_substreams, made,
                 next_substream_id, conn, pc, sending, reports, closedReported,
                 notCN>>

(***************************************************************************)
(* QuicConnection::start, the connection event loop.                       *)
(***************************************************************************)
\* QuicConnection::new
InitConn ==
  /\ pending_substreams = <<>>
  /\ made = 0
  /\ next_substream_id = 0
  /\ conn = "open"
  /\ pc = "select"
  /\ sending = <<>>
  /\ reports = {}
  /\ closedReported = 0

InitCN == InitInfo /\ InitConn

\* FuturesUnordered::push
Push(f) ==
  /\ made' = made + 1
  /\ pending_substreams' =
       [i \in DOMAIN pending_substreams \cup {made + 1} |->
          IF i = made + 1 THEN f ELSE pending_substreams[i]]

\* `accept_bidirectional_stream()` yields Ok(Some(stream)): the accept is started
AcceptStream ==
  /\ pc = "select"
  /\ conn = "open"
  /\ made + Len(rx) < MaxStreams
  /\ next_substream_id' = next_substream_id + 1
  /\ Push([dir |-> "Inbound", protocol |-> <<>>, substream_id |-> <<>>, st |-> "run",
           negotiated |-> <<>>])
  /\ UNCHANGED <<protocols, chan, rxOpen, rx, txAlive, conn, pc, sending, reports,
                 closedReported, notCN>>

\* the remote closes the connection, or it fails
ConnectionEnds ==
  /\ conn = "open"
  /\ conn' = "ended"
  /\ UNCHANGED <<protocols, chan, rxOpen, rx, txAlive, pending_substreams, made,
                 next_substream_id, pc, sending, reports, closedReported, notCN>>

\* the loop returns on the end of the connection without reporting it
ConnectionClosed_Silent ==
  /\ pc = "select"
  /\ conn # "open"
  /\ pc' = "exited"
  /\ pending_substreams' = <<>>
  /\ UNCHANGED <<protocols, chan, rxOpen, rx, txAlive, made, next_substream_id, conn,
                 sending, reports, closedReported, notCN>>

\* `accept_bidirectional_stream()` yields Ok(None) or Err: report_connection_closed,
\* then `return Ok(())`
ConnectionClosed ==
  /\ pc = "select"
  /\ conn # "open"
  /\ closedReported' = closedReported + 1
  /\ pc' = "exited"
  /\ pending_substreams' = <<>>
  /\ UNCHANGED <<protocols, chan, rxOpen, rx, txAlive, made, next_substream_id, conn,
                 sending, reports, notCN>>

\* a pending accept or open runs to its end: the protocol is negotiated, the
\* negotiation fails, or the 5 second timeout expires. The listener selects among the
\* installed protocols, the dialer gets the protocol it proposed.
Resolve(i, st, name) ==
  /\ pc # "exited"
  /\ i \in DOMAIN pending_substreams
  /\ pending_substreams[i].st = "run"
  /\ IF st = "ok"
       THEN IF pending_substreams[i].dir = "Inbound"
              THEN name \in DOMAIN protocols
              ELSE <<name>> = pending_substreams[i].protocol
       ELSE name = "a"
  /\ pending_substreams' =
       [pending_substreams EXCEPT ![i].st = st,
                                  ![i].negotiated = IF st = "ok" THEN <<name>> ELSE <<>>]
  /\ UNCHANGED <<protocols, chan, rxOpen, rx, txAlive, made, next_substream_id, conn, pc,
                 sending, reports, closedReported, notCN>>

\* a failed negotiation ends the loop and the connection is reported as closed
SubstreamResult_Fatal(i) ==
  /\ pc = "select"
  /\ i \in DOMAIN pending_substreams
  /\ pending_substreams[i].st # "run"
  /\ LET f == pending_substreams[i] IN
       IF f.st = "ok"
         THEN /\ pending_substreams' =
                   [j \in DOMAIN pending_substreams \ {i} |-> pending_substreams[j]]
              /\ report_substream_open(
                   f.negotiated[1], [id |-> i, protocol |-> f.negotiated[1], dir |-> f.dir])
              /\ UNCHANGED closedReported
         ELSE /\ pending_substreams' = <<>>
              /\ closedReported' = closedReported + 1
              /\ pc' = "exited"
              /\ UNCHANGED <<protocols, chan, sending, reports>>
  /\ UNCHANGED <<rxOpen, rx, txAlive, made, next_substream_id, conn, notCN>>

\* `pending_substreams.select_next_some()` yields the result of future `i`
SubstreamResult(i) ==
  /\ pc = "select"
  /\ i \in DOMAIN pending_substreams
  /\ pending_substreams[i].st # "run"
  /\ pending_substreams' = [j \in DOMAIN pending_substreams \ {i} |-> pending_substreams[j]]
  /\ LET f == pending_substreams[i] IN
       IF f.st = "ok"
         THEN report_substream_open(
                f.negotiated[1], [id |-> i, protocol |-> f.negotiated[1], dir |-> f.dir])
       ELSE IF f.protocol # <<>> /\ f.substream_id # <<>>
         THEN report_substream_open_failure(
                f.protocol[1], f.substream_id[1],
                IF f.st = "timeout" THEN "Timeout" ELSE "NegotiationFailed")
       ELSE UNCHANGED <<protocols, chan, pc, sending, reports>>
  /\ UNCHANGED <<rxOpen, rx, txAlive, made, next_substream_id, conn, closedReported, notCN>>

\* `protocol_set.next_event()` yields Some(OpenSubstream { protocol, substream_id })
OpenSubstream ==
  /\ pc = "select"
  /\ rx # <<>>
  /\ rx' = Tail(rx)
  /\ Push([dir |-> "Outbound", protocol |-> <<Head(rx).protocol>>,
           substream_id |-> <<Head(rx).substream_id>>, st |-> "run", negotiated |-> <<>>])
  /\ UNCHANGED <<protocols, chan, rxOpen, txAlive, next_substream_id, conn, pc, sending,
                 reports, closedReported, notCN>>

\* the loop returns as soon as no command is queued
ProtocolsExited_Idle ==
  /\ pc = "select"
  /\ rx = <<>>
  /\ pc' = "exited"
  /\ pending_substreams' = <<>>
  /\ UNCHANGED <<protocols, chan, rxOpen, rx, txAlive, made, next_substream_id, conn,
                 sending, reports, closedReported, notCN>>

\* `protocol_set.next_event()` yields None: every handler has exited
ProtocolsExited ==
  /\ pc = "select"
  /\ rx = <<>>
  /\ ~txAlive
  /\ pc' = "exited"
  /\ pending_substreams' = <<>>
  /\ UNCHANGED <<protocols, chan, rxOpen, rx, txAlive, made, next_substream_id, conn,
                 sending, reports, closedReported, notCN>>

NextCN ==
  \/ AcceptStream
  \/ ConnectionEnds
  \/ ConnectionClosed
  \/ \E i \in 1..MaxStreams, st \in {"ok", "failed", "timeout"}, name \in ProtocolNames :
       Resolve(i, st, name)
  \/ \E i \in 1..MaxStreams : SubstreamResult(i)
  \/ OpenSubstream
  \/ ProtocolsExited
  \/ ReportResume
  \/ \E c \in Installed : HandlerRecv(c)
  \/ \E c \in Installed : HandlerExit(c)
  \/ \E c \in Installed : OtherConnectionSends(c)
  \/ \E c \in Installed, name \in ProtocolNames : HandlerOpen(c, name)

(***************************************************************************)
(* WebSocketTransport.                                                     *)
(***************************************************************************)
\* TransportBuilder::new
InitWS ==
  /\ pending_dials = <<>>
  /\ pending_connections = <<>>
  /\ pending_raw_connections = <<>>
  /\ opened_raw = <<>>
  /\ canceled = {}
  /\ pending_open = {}
  /\ listener = <<>>
  /\ next_connection_id = 0
  /\ incoming = 0
  /\ pushed = 0
  /\ started = {}
  /\ wsEvents = <<>>
  /\ wsEnded = FALSE
  /\ inflightCanceled = {}
  /\ rawCanceled = {}
  /\ rejected = {}
  /\ refused = {}

\* the addresses callers pass, as the protocol stacks of the Multiaddr
WsAddress == <<"ip4", "tcp", "ws", "p2p">>
WssAddress == <<"dns", "tcp", "wss", "p2p">>
NoPeerAddress == <<"ip6", "tcp", "ws">>
QuicAddress == <<"ip4", "udp", "quic-v1", "p2p">>
\* a /p2p component whose multihash is not a peer id
BadPeerAddress == <<"dns4", "tcp", "wss", "p2p-other">>
EmptyAddress == <<>>

Addresses == {WsAddress, WssAddress, NoPeerAddress, QuicAddress, BadPeerAddress, EmptyAddress}

\* the address lists passed to open
AddressLists == {<<>>, <<WsAddress>>, <<NoPeerAddress>>, <<WsAddress, WssAddress>>}

\* Iterator::next on the protocol stack
Nth(address, n) == IF n <= Len(address) THEN <<address[n]>> ELSE <<>>

\* WebSocketTransport::multiaddr_into_url: the URL scheme and host, or the error
multiaddr_into_url(address) ==
  LET first == Nth(address, 1)
      second == Nth(address, 2)
      third == Nth(address, 3)
      fourth == Nth(address, 4)
      unsupported == [ok |-> FALSE, error |-> "TransportNotSupported"]
  IN IF first = <<>> \/ first[1] \notin {"ip4", "ip6", "dns", "dns4", "dns6"} THEN unsupported
     ELSE IF second # <<"tcp">> THEN unsupported
     ELSE IF third \notin {<<"ws">>, <<"wss">>} THEN unsupported
     ELSE IF fourth = <<"p2p-other">> THEN [ok |-> FALSE, error |-> "InvalidPeerId"]
     ELSE IF fourth # <<"p2p">> THEN [ok |-> FALSE, error |-> "PeerIdMissing"]
     ELSE [ok |-> TRUE,
           url |-> <<third[1], IF first[1] = "ip6" THEN "[host]" ELSE "host">>]

\* FuturesUnordered::push on pending_connections
PushConnection(q, n, f) == [i \in DOMAIN q \cup {n} |-> IF i = n THEN f ELSE q[i]]

\* HashMap::insert
Put(m, k, v) == [i \in DOMAIN m \cup {k} |-> IF i = k THEN v ELSE m[i]]

\* HashMap::remove
Drop(m, k) == [i \in DOMAIN m \ {k} |-> m[i]]

\* the dial is recorded and scheduled before its address is converted
dial_Eager(address) ==
  LET connection_id == next_connection_id + 1
      parsed == multiaddr_into_url(address)
  IN /\ next_connection_id < MaxConnections
     /\ next_connection_id' = connection_id
     /\ refused' = IF parsed.ok THEN refused ELSE refused \cup {connection_id}
     /\ pending_dials' = Put(pending_dials, connection_id, address)
     /\ pushed' = pushed + 1
     /\ pending_connections' =
          PushConnection(pending_connections, pushed + 1,
                         [id |-> connection_id, kind |-> "dial", st |-> "run"])
     /\ UNCHANGED <<pending_raw_connections, opened_raw, canceled, pending_open, listener,
                    incoming, started, wsEvents, wsEnded, inflightCanceled, rawCanceled,
                    rejected, notWS>>

\* a call that returned an error with nothing recorded for its id
Refuse(log, connection_id) == log \cup {connection_id}

\* the caller takes a fresh connection id from TransportHandle::next_connection_id
\* and dials `address`
dial(address) ==
  LET connection_id == next_connection_id + 1
      parsed == multiaddr_into_url(address)
  IN /\ next_connection_id < MaxConnections
     /\ next_connection_id' = connection_id
     /\ IF ~parsed.ok
          THEN /\ refused' = Refuse(refused, connection_id)
               /\ UNCHANGED <<pending_dials, pending_connections, pushed>>
          ELSE /\ refused' = refused
               /\ pending_dials' = Put(pending_dials, connection_id, address)
               /\ pushed' = pushed + 1
               /\ pending_connections' =
                    PushConnection(pending_connections, pushed + 1,
                                   [id |-> connection_id, kind |-> "dial", st |-> "run"])
     /\ UNCHANGED <<pending_raw_connections, opened_raw, canceled, pending_open, listener,
                    incoming, started, wsEvents, wsEnded, inflightCanceled, rawCanceled,
                    rejected, notWS>>

\* the caller takes a fresh connection id and opens raw connections to `addresses`
open(addresses) ==
  LET connection_id == next_connection_id + 1 IN
  /\ next_connection_id < MaxConnections
  /\ next_connection_id' = connection_id
  /\ pushed' = pushed + 1
  /\ pending_raw_connections' =
       PushConnection(pending_raw_connections, pushed + 1,
                      [id |-> connection_id,
                       running |-> {addresses[i] : i \in 1..Len(addresses)},
                       st |-> IF addresses = <<>> THEN "err" ELSE "run",
                       address |-> <<>>])
  /\ UNCHANGED <<pending_dials, pending_connections, opened_raw, canceled, pending_open,
                 listener, incoming, started, wsEvents, wsEnded, inflightCanceled, rawCanceled,
                 rejected, refused, notWS>>

\* what negotiate(connection_id) returns
negotiate_result(connection_id) ==
  IF connection_id \notin DOMAIN opened_raw THEN "ConnectionDoesntExist"
  ELSE IF \A n \in 1..Len(opened_raw[connection_id]) : opened_raw[connection_id][n] # "p2p"
    THEN "InvalidState"
  ELSE "Ok"

\* the raw connection is looked up and left in opened_raw
negotiate_KeepsRaw(connection_id) ==
  /\ connection_id \in 1..next_connection_id
  /\ negotiate_result(connection_id) = "Ok"
  /\ pending_dials' = Put(pending_dials, connection_id, opened_raw[connection_id])
  /\ pushed' = pushed + 1
  /\ pending_connections' =
       PushConnection(pending_connections, pushed + 1,
                      [id |-> connection_id, kind |-> "negotiate", st |-> "run"])
  /\ UNCHANGED <<pending_raw_connections, opened_raw, canceled, pending_open, listener,
                 next_connection_id, incoming, started, wsEvents, wsEnded,
                 inflightCanceled, rawCanceled, rejected, refused, notWS>>

negotiate(connection_id) ==
  /\ connection_id \in 1..next_connection_id
  /\ IF negotiate_result(connection_id) = "ConnectionDoesntExist"
       THEN UNCHANGED <<pending_dials, pending_connections, opened_raw, pushed>>
     ELSE /\ opened_raw' = Drop(opened_raw, connection_id)
          /\ IF negotiate_result(connection_id) = "InvalidState"
               THEN UNCHANGED <<pending_dials, pending_connections, pushed>>
               ELSE /\ pending_dials' =
                         Put(pending_dials, connection_id, opened_raw[connection_id])
                    /\ pushed' = pushed + 1
                    /\ pending_connections' =
                         PushConnection(pending_connections, pushed + 1,
                                        [id |-> connection_id, kind |-> "negotiate",
                                         st |-> "run"])
  /\ UNCHANGED <<pending_raw_connections, canceled, pending_open, listener,
                 next_connection_id, incoming, started, wsEvents, wsEnded,
                 inflightCanceled, rawCanceled,
                 rejected, refused, notWS>>

\* accept answers Ok to every id
accept_result_Always(connection_id) == "Ok"

\* what accept(connection_id) returns
accept_result(connection_id) ==
  IF connection_id \in pending_open THEN "Ok" ELSE "ConnectionDoesntExist"

\* what reject(connection_id) returns
reject_result(connection_id) ==
  IF connection_id \in pending_open THEN "Ok" ELSE "ConnectionDoesntExist"

accept(connection_id) ==
  /\ connection_id \in 1..next_connection_id
  /\ IF accept_result(connection_id) = "Ok"
       THEN /\ pending_open' = pending_open \ {connection_id}
            /\ started' = started \cup {connection_id}
       ELSE UNCHANGED <<pending_open, started>>
  /\ UNCHANGED <<pending_dials, pending_connections, pending_raw_connections, opened_raw,
                 canceled, listener, next_connection_id, incoming, pushed, wsEvents,
                 wsEnded, inflightCanceled, rawCanceled, rejected, refused, notWS>>

reject(connection_id) ==
  /\ connection_id \in 1..next_connection_id
  /\ canceled' = canceled \cup {connection_id}
  /\ pending_open' = pending_open \ {connection_id}
  /\ rejected' = IF reject_result(connection_id) = "Ok"
                   THEN rejected \cup {connection_id} ELSE rejected
  /\ UNCHANGED <<pending_dials, pending_connections, pending_raw_connections, opened_raw,
                 listener, next_connection_id, incoming, pushed, started, wsEvents,
                 wsEnded, inflightCanceled, rawCanceled, refused, notWS>>

\* the ids with a dial or a negotiation in flight, its result not yet polled
InFlight ==
  {pending_connections[i].id : i \in {j \in DOMAIN pending_connections :
                                        pending_connections[j].kind # "accept"}}

\* the ids with an open in flight, its result not yet polled
Opening == {pending_raw_connections[i].id : i \in DOMAIN pending_raw_connections}

cancel(connection_id) ==
  /\ connection_id \in 1..next_connection_id
  /\ canceled' = canceled \cup {connection_id}
  /\ inflightCanceled' = inflightCanceled \cup ({connection_id} \cap InFlight)
  /\ rawCanceled' = rawCanceled \cup ({connection_id} \cap Opening)
  /\ UNCHANGED <<pending_dials, pending_connections, pending_raw_connections, opened_raw,
                 pending_open, listener, next_connection_id, incoming, pushed, started,
                 wsEvents, wsEnded, rejected, refused, notWS>>

(***************************************************************************)
(* The network, as the transport's futures and listener see it.            *)
(***************************************************************************)
\* a remote connects to the listener, or the listener fails
Incoming(what) ==
  /\ incoming < MaxIncoming
  /\ incoming' = incoming + 1
  /\ listener' = Append(listener, what)
  /\ UNCHANGED <<pending_dials, pending_connections, pending_raw_connections, opened_raw,
                 canceled, pending_open, next_connection_id, pushed, started, wsEvents,
                 wsEnded, inflightCanceled, rawCanceled,
                 rejected, refused, notWS>>

\* a dial, a negotiation or an inbound handshake runs to its end: the connection, an
\* error, or the expiry of connection_open_timeout
ConnectionResolves(i, st) ==
  /\ i \in DOMAIN pending_connections
  /\ pending_connections[i].st = "run"
  /\ pending_connections' = [pending_connections EXCEPT ![i].st = st]
  /\ UNCHANGED <<pending_dials, pending_raw_connections, opened_raw, canceled, pending_open,
                 listener, next_connection_id, incoming, pushed, started, wsEvents,
                 wsEnded, inflightCanceled, rawCanceled,
                 rejected, refused, notWS>>

\* one attempt of an open ends: the first success ends the future with its address,
\* the last failure ends it with Err(connection_id)
AttemptResolves(i, address, st) ==
  /\ i \in DOMAIN pending_raw_connections
  /\ pending_raw_connections[i].st = "run"
  /\ address \in pending_raw_connections[i].running
  /\ st = "ok" => multiaddr_into_url(address).ok
  /\ pending_raw_connections' =
       [pending_raw_connections EXCEPT
          ![i] = IF st = "ok"
                   THEN [@ EXCEPT !.st = "ok", !.address = <<address>>, !.running = {}]
                   ELSE [@ EXCEPT !.running = @ \ {address},
                                  !.st = IF pending_raw_connections[i].running = {address}
                                           THEN "err" ELSE "run"]]
  /\ UNCHANGED <<pending_dials, pending_connections, opened_raw, canceled, pending_open,
                 listener, next_connection_id, incoming, pushed, started, wsEvents,
                 wsEnded, inflightCanceled, rawCanceled,
                 rejected, refused, notWS>>

(***************************************************************************)
(* WebSocketTransport::poll_next.                                          *)
(***************************************************************************)
\* `while let Poll::Ready(Some(connection)) = self.listener.poll_next_unpin(cx)`:
\* acc = [listener, pending_connections, next_connection_id, pushed, ended]
RECURSIVE ListenerLoop(_)
ListenerLoop(acc) ==
  IF acc.listener = <<>> THEN acc
  ELSE IF Head(acc.listener) = "error"
    THEN [acc EXCEPT !.listener = Tail(@), !.ended = TRUE]
  ELSE ListenerLoop(
         [acc EXCEPT !.listener = Tail(@),
                     !.next_connection_id = @ + 1,
                     !.pushed = @ + 1,
                     !.pending_connections =
                        PushConnection(@, acc.pushed + 1,
                                       [id |-> acc.next_connection_id + 1,
                                        kind |-> "accept", st |-> "run"])])

\* the result of the first finished open is returned whatever `canceled` holds
RawLoop_Unchecked(order, acc) ==
  IF order = <<>> THEN acc
  ELSE LET f == acc.pending_raw_connections[Head(order)]
           acc1 == [acc EXCEPT !.pending_raw_connections = Drop(@, Head(order))]
       IN IF f.st = "ok"
            THEN [acc1 EXCEPT !.opened_raw = Put(@, f.id, f.address[1]),
                              !.out = <<[type |-> "ConnectionOpened", id |-> f.id,
                                         address |-> f.address[1], error |-> "none"]>>]
            ELSE [acc1 EXCEPT !.out = <<[type |-> "OpenFailure", id |-> f.id,
                                         address |-> <<>>, error |-> "none"]>>]

\* ConnectionOpened is returned but the socket is not kept in opened_raw
RawLoop_NoInsert(order, acc) ==
  [RawLoop_Unchecked(order, acc) EXCEPT !.opened_raw = acc.opened_raw]

\* `while let Poll::Ready(Some(result)) = self.pending_raw_connections.poll_next_unpin(cx)`
\* with the finished futures yielded in `order`:
\* acc = [pending_raw_connections, opened_raw, canceled, out]
RECURSIVE RawLoop(_, _)
RawLoop(order, acc) ==
  IF order = <<>> THEN acc
  ELSE LET f == acc.pending_raw_connections[Head(order)]
           acc1 == [acc EXCEPT !.pending_raw_connections = Drop(@, Head(order))]
       IN IF f.id \in acc.canceled
            THEN RawLoop(Tail(order), [acc1 EXCEPT !.canceled = @ \ {f.id}])
          ELSE IF f.st = "ok"
            THEN [acc1 EXCEPT !.opened_raw = Put(@, f.id, f.address[1]),
                              !.out = <<[type |-> "ConnectionOpened", id |-> f.id,
                                         address |-> f.address[1], error |-> "none"]>>]
          ELSE [acc1 EXCEPT !.out = <<[type |-> "OpenFailure", id |-> f.id,
                                       address |-> <<>>, error |-> "none"]>>]

\* every failed future yields a DialFailure, the inbound handshakes included
ConnectionLoop_AnyFailure(order, acc) ==
  IF order = <<>> THEN acc
  ELSE LET f == acc.pending_connections[Head(order)]
           acc1 == [acc EXCEPT !.pending_connections = Drop(@, Head(order))]
       IN IF f.st = "ok"
            THEN [acc1 EXCEPT !.pending_open = @ \cup {f.id},
                              !.out = <<[type |-> "ConnectionEstablished", id |-> f.id,
                                         address |-> <<>>, error |-> "none"]>>]
            ELSE [acc1 EXCEPT !.pending_dials = Drop(@, f.id),
                              !.out = <<[type |-> "DialFailure", id |-> f.id,
                                         address |-> IF f.id \in DOMAIN acc.pending_dials
                                                       THEN acc.pending_dials[f.id] ELSE <<>>,
                                         error |-> IF f.st = "timeout" THEN "Timeout"
                                                   ELSE "Error"]>>]

\* a failed dial or negotiation is dropped like a failed inbound handshake
ConnectionLoop_Silent(order, acc) ==
  IF order = <<>> THEN acc
  ELSE LET f == acc.pending_connections[Head(order)]
           acc1 == [acc EXCEPT !.pending_connections = Drop(@, Head(order))]
       IN IF f.st = "ok"
            THEN [acc1 EXCEPT !.pending_open = @ \cup {f.id},
                              !.out = <<[type |-> "ConnectionEstablished", id |-> f.id,
                                         address |-> <<>>, error |-> "none"]>>]
            ELSE acc1

\* `while let Poll::Ready(Some(connection)) = self.pending_connections.poll_next_unpin(cx)`
\* with the finished futures yielded in `order`:
\* acc = [pending_connections, pending_dials, pending_open, out]
RECURSIVE ConnectionLoop(_, _)
ConnectionLoop(order, acc) ==
  IF order = <<>> THEN acc
  ELSE LET f == acc.pending_connections[Head(order)]
           acc1 == [acc EXCEPT !.pending_connections = Drop(@, Head(order))]
       IN IF f.st = "ok"
            THEN [acc1 EXCEPT !.pending_open = @ \cup {f.id},
                              !.out = <<[type |-> "ConnectionEstablished", id |-> f.id,
                                         address |-> <<>>, error |-> "none"]>>]
          ELSE IF f.kind # "accept" /\ f.id \in DOMAIN acc.pending_dials
            THEN [acc1 EXCEPT !.pending_dials = Drop(@, f.id),
                              !.out = <<[type |-> "DialFailure", id |-> f.id,
                                         address |-> acc.pending_dials[f.id],
                                         error |-> IF f.st = "timeout" THEN "Timeout"
                                                   ELSE "Error"]>>]
          ELSE ConnectionLoop(Tail(order), acc1)

\* the futures of `q` that have finished
Finished(q) == {i \in DOMAIN q : q[i].st # "run"}

ws_poll_next ==
  LET l == ListenerLoop([listener |-> listener, pending_connections |-> pending_connections,
                         next_connection_id |-> next_connection_id, pushed |-> pushed,
                         ended |-> FALSE])
  IN /\ listener' = l.listener
     /\ next_connection_id' = l.next_connection_id
     /\ pushed' = l.pushed
     /\ IF l.ended
          THEN /\ wsEnded' = TRUE
               /\ pending_connections' = l.pending_connections
               /\ UNCHANGED <<pending_dials, pending_raw_connections, opened_raw, canceled,
                              pending_open, wsEvents>>
          ELSE \E rawOrder \in Orders(Finished(pending_raw_connections)) :
                 LET r == RawLoop(rawOrder,
                                  [pending_raw_connections |-> pending_raw_connections,
                                   opened_raw |-> opened_raw, canceled |-> canceled,
                                   out |-> <<>>])
                 IN /\ pending_raw_connections' = r.pending_raw_connections
                    /\ opened_raw' = r.opened_raw
                    /\ canceled' = r.canceled
                    /\ IF r.out # <<>>
                         THEN /\ wsEvents' = Append(wsEvents, r.out[1])
                              /\ pending_connections' = l.pending_connections
                              /\ UNCHANGED <<pending_dials, pending_open, wsEnded>>
                         ELSE \E order \in Orders(Finished(l.pending_connections)) :
                                LET c == ConnectionLoop(
                                           order,
                                           [pending_connections |-> l.pending_connections,
                                            pending_dials |-> pending_dials,
                                            pending_open |-> pending_open, out |-> <<>>])
                                IN /\ pending_connections' = c.pending_connections
                                   /\ pending_dials' = c.pending_dials
                                   /\ pending_open' = c.pending_open
                                   /\ wsEvents' = wsEvents \o c.out
                                   /\ UNCHANGED wsEnded
     /\ UNCHANGED <<incoming, started, inflightCanceled, rawCanceled,
                 rejected, refused, notWS>>

NextWS ==
  \/ \E address \in Addresses : dial(address)
  \/ \E addresses \in AddressLists : open(addresses)
  \/ \E id \in 1..MaxConnections + MaxIncoming : negotiate(id)
  \/ \E id \in 1..MaxConnections + MaxIncoming : accept(id)
  \/ \E id \in 1..MaxConnections + MaxIncoming : reject(id)
  \/ \E id \in 1..MaxConnections + MaxIncoming : cancel(id)
  \/ \E what \in {"connection", "error"} : Incoming(what)
  \/ \E i \in 1..2 * MaxConnections + MaxIncoming, st \in {"ok", "err", "timeout"} :
       ConnectionResolves(i, st)
  \/ \E i \in 1..2 * MaxConnections + MaxIncoming, address \in Addresses, st \in {"ok", "err"} :
       AttemptResolves(i, address, st)
  \/ ws_poll_next

(***************************************************************************)
(* Specifications.                                                         *)
(***************************************************************************)
Init == InitHS /\ InitCN /\ InitWS

\* the engine configured as in the two-peer scenario
InitScenario == Init /\ handshake = <<1, 2, 3>>

\* all operations of the engine
NextHS ==
  \/ \E p \in Peers, h \in RemotePayloads : negotiate_outbound(p, h)
  \/ \E p \in Peers, h \in RemotePayloads : accept_inbound(p, h)
  \/ \E p \in Peers, h \in RemotePayloads : read_handshake(p, h)
  \/ \E p \in Peers, h \in RemotePayloads : send_handshake(p, h)
  \/ \E h \in LocalPayloads : set_handshake(h)
  \/ \E p \in Peers : remove_outbound(p)
  \/ \E p \in Peers : remove_inbound(p)
  \/ \E key \in Keys, v \in {"pending", "ready", "error", "closed"} : IoChange(key, v)
  \/ poll_next

SpecHS == Init /\ [][NextHS]_vars

\* every peer starts at most one outbound handshake, nothing is withdrawn
NegotiateOnce(p, h) ==
  /\ \A s \in 1..Len(handed) : handed[s].key # <<p, Outbound>>
  /\ negotiate_outbound(p, h)

NextOut ==
  \/ \E p \in Peers, h \in RemotePayloads : NegotiateOnce(p, h)
  \/ \E key \in Keys, v \in {"pending", "ready", "error", "closed"} : IoChange(key, v)
  \/ poll_next

SpecOut == Init /\ [][NextOut]_vars

\* the caller hands the engine one more substream for a key whose result is queued
\* in `ready` and not yet returned
RegisterAgain(key, state, remote) ==
  /\ key \in Queued(ready)
  /\ InsertUpTo(MaxSubstreams + 1, key, state, remote)

\* the engine with handshakes of every kind, and with callers that register a key
\* again while its result waits for delivery
NextAgain ==
  \/ \E p \in Peers, h \in RemotePayloads : negotiate_outbound(p, h)
  \/ \E p \in Peers, h \in RemotePayloads : accept_inbound(p, h)
  \/ \E p \in Peers, h \in RemotePayloads : read_handshake(p, h)
  \/ \E p \in Peers, h \in RemotePayloads : send_handshake(p, h)
  \/ \E p \in Peers, h \in RemotePayloads :
       RegisterAgain(<<p, Outbound>>, "SendHandshake", h)
  \/ \E p \in Peers, h \in RemotePayloads :
       RegisterAgain(<<p, InboundAccepting>>, "ReadHandshake", h)
  \/ \E p \in Peers, h \in RemotePayloads :
       RegisterAgain(<<p, Inbound>>, "ReadHandshake", h)
  \/ \E p \in Peers, h \in RemotePayloads :
       RegisterAgain(<<p, Inbound>>, "SendHandshake", h)
  \/ \E key \in Keys, v \in {"pending", "ready", "error", "closed"} : IoChange(key, v)
  \/ poll_next

SpecAgain == InitScenario /\ [][NextAgain]_vars

\* the WebSocket transport with its callers and the network
SpecWS == InitScenario /\ [][NextWS]_vars

\* the connection event loop with its dispatcher and handlers
SpecCN == InitScenario /\ [][NextCN]_vars

\* the loop is a task of the runtime: a step it can take is taken; `select!` picks
\* among the ready branches at random; the handler of "b" keeps receiving, the one of
\* "a" may not
FairSpecCN ==
  /\ SpecCN
  /\ WF_vars(ReportResume)
  /\ WF_vars(\E i \in 1..MaxStreams : SubstreamResult(i))
  /\ WF_vars(OpenSubstream)
  /\ WF_vars(HandlerRecv("b"))


(***************************************************************************)
(* HandshakeService: properties.                                           *)
(***************************************************************************)
IsError(ev) == ev.type \in {"OutboundNegotiationError", "InboundNegotiationError"}

IsSuccess(ev) == ~IsError(ev)

IsOk(c) == c.ok

\* the number of events returned so far for the outbound handshake of `p`
EventsOf(p) == Cardinality({i \in 1..Len(events) : events[i].peer = p})

\* `p` has started its outbound handshake
Registered(p) == \E s \in 1..Len(handed) : handed[s].key = <<p, Outbound>>

\* the entry under `key` is neither queued nor waiting: its primitive answers
\* something else than Pending
Runnable(key) ==
  /\ key \in DOMAIN substreams
  /\ key \notin Queued(ready)
  /\ io[substreams[key].sub] # "pending"

\* C1: N peers, each registered once with negotiate_outbound, get exactly one terminal
\* event each: never more than one event for the same peer, every event for a peer that
\* was registered, and exactly one event for a peer whose entry has left the engine.
C1_OneTerminalEventPerPeer ==
  \A p \in Peers :
    /\ EventsOf(p) <= 1
    /\ EventsOf(p) = 1 => Registered(p)
    /\ (Registered(p) /\ <<p, Outbound>> \notin DOMAIN substreams) => EventsOf(p) = 1

\* C6: the poll_next call that observes an I/O error or a closed stream returns the
\* negotiation error of that peer and removes the entry, so it is no longer pending.
C6_ErrorRemovesEntry ==
  (ret.t = "ready" /\ IsError(ret.ev)) => <<ret.ev.peer, ret.ev.dir>> \notin DOMAIN substreams

\* C7 as stated: results, failures included, are returned in completion order: the
\* i-th event returned is about the i-th entry that reached its terminal outcome.
C7_CompletionOrder ==
  \A i \in 1..Len(events) :
    /\ i <= Len(completed)
    /\ completed[i].key = <<events[i].peer, events[i].dir>>

\* C7 as amended: one call returns at most one result; the successful results are
\* returned in the order their entries completed; a failure is returned by the very
\* call that observed it, whatever is queued.
C7_SuccessesInCompletionOrder ==
  /\ [](LET okEvents == SelectSeq(events, IsSuccess)
            okDone == SelectSeq(completed, IsOk)
        IN /\ Len(okEvents) <= Len(okDone)
           /\ \A i \in 1..Len(okEvents) :
                okDone[i].key = <<okEvents[i].peer, okEvents[i].dir>>
           /\ (ret.t = "ready" /\ IsError(ret.ev)) =>
                completed[Len(completed)] = [key |-> <<ret.ev.peer, ret.ev.dir>>, ok |-> FALSE])
  /\ [][Len(events') <= Len(events) + 1]_vars

\* C7, witness: two handshakes completed in one call and both results were returned,
\* by two calls
C7_Witness ==
  /\ Len(events) >= 2
  /\ IsSuccess(events[1]) /\ IsSuccess(events[2])
  /\ ret.t = "ready" /\ ~ret.loop

\* C8: every poll_next call advances each pending entry as far as its stream allows,
\* whatever happens to the other entries: when the call returns, no entry is left
\* whose stream is ready or has failed, other than the one the call reports.
C8_EveryEntryAdvanced ==
  ret.t \in {"ready", "pending"} =>
    \A key \in DOMAIN substreams :
      Runnable(key) => (ret.t = "ready" /\ key = <<ret.ev.peer, ret.ev.dir>>)

\* C9: a poll_next call made after one that returned Pending, with no readiness and no
\* registration changed in between, returns Pending again, returns no event, and leaves
\* the entries, their streams and the ready list as they were.
C9_NoOpPollIsIdempotent ==
  [][(ret.t = "pending" /\ ret'.t # "none") =>
       /\ ret'.t = "pending"
       /\ UNCHANGED <<substreams, ready, panicked, io, written, events, completed>>]_vars

\* C9, witness: poll_next was called again after it had returned Pending with entries
\* waiting
C9_Witness ==
  /\ ret.t = "pending" /\ ret.again /\ ret.loop
  /\ Cardinality(DOMAIN substreams) = 2

\* C10: an OutboundNegotiated event carries the payload read from the stream registered
\* for its peer, together with that substream, to which exactly the local payload was
\* written; when all registered handshakes went through without a failure, there is
\* one OutboundNegotiated event for each.
C10_OutboundNegotiated ==
  /\ \A i \in 1..Len(events) :
       events[i].type = "OutboundNegotiated" =>
         /\ events[i].sub \in 1..Len(handed)
         /\ handed[events[i].sub].key = <<events[i].peer, Outbound>>
         /\ events[i].handshake = handed[events[i].sub].remote
         /\ written[events[i].sub] = <<handshake>>
  /\ \A p \in Peers :
       (Registered(p) /\ <<p, Outbound>> \notin DOMAIN substreams)
         => \E i \in 1..Len(events) : events[i].peer = p /\ events[i].type = "OutboundNegotiated"
  /\ \A i, j \in 1..Len(events) :
       (IsSuccess(events[i]) /\ IsSuccess(events[j]) /\ i # j) => events[i].sub # events[j].sub

\* C10, witness: two peers went through the outbound handshake and two events carrying
\* the remote payloads were returned
C10_Witness ==
  /\ Len(events) = 2
  /\ events[1].type = "OutboundNegotiated" /\ events[2].type = "OutboundNegotiated"
  /\ events[1].peer # events[2].peer
  /\ events[1].handshake = <<9, 9>> /\ events[2].handshake = <<9, 9>>
  /\ handshake = <<1, 2, 3>>

(***************************************************************************)
(* ProtocolInfo and QuicConnection: properties.                            *)
(***************************************************************************)
IsOpened(r) == r.ev.type = "SubstreamOpened"

\* the SubstreamOpened events of substream `id` queued on channel `c`
QueuedOn(c, id) ==
  {i \in 1..Len(chan[c]) : chan[c][i].type = "SubstreamOpened" /\ chan[c][i].substream.id = id}

\* C3: a handler whose channel is full and is not drained does not keep a substream of
\* the other protocol from its handler: once a report to "a" is suspended, a substream
\* negotiated for "b" that is ready on the connection is taken and reported (unless
\* the connection ends or the handler of "b" exits).
C3_LiveHandlerServed ==
  \A i \in 1..MaxStreams :
    (/\ pc = "report" /\ sending[1].ch = "a"
     /\ i \in DOMAIN pending_substreams
     /\ pending_substreams[i].negotiated = <<"b">>)
    ~> (i \notin DOMAIN pending_substreams \/ conn # "open" \/ ~rxOpen["b"])

\* C4: report_substream_open for a name that is not in the table returns
\* ProtocolNotSupported, and only then; it queues nothing on any channel and does not
\* suspend, whatever the channels hold.
C4_UnknownProtocol ==
  /\ \A r \in reports :
       IsOpened(r) =>
         /\ r.name \notin DOMAIN protocols <=> r.result = "ProtocolNotSupported"
         /\ r.name \notin DOMAIN protocols =>
              /\ ~r.suspended
              /\ \A c \in DOMAIN chan : QueuedOn(c, r.ev.substream.id) = {}
  /\ pc = "report" => sending[1].call.name \in DOMAIN protocols

\* C4, witness: a substream of the unknown protocol "x" was reported while every
\* channel was full
C4_Witness ==
  \E r \in reports :
    IsOpened(r) /\ r.name = "x" /\ r.full /\ r.result = "ProtocolNotSupported"

C2_CanceledDialIsSilent ==
  \A id \in inflightCanceled :
    /\ id \notin pending_open
    /\ \A i \in 1..Len(wsEvents) :
         wsEvents[i].id = id => wsEvents[i].type \notin {"ConnectionEstablished", "DialFailure"}

(***************************************************************************)
(* QuicConnection: failures of pending substreams.                         *)
(***************************************************************************)
\* the failure event of the outbound open held by future `f`
TimeoutOf(f) ==
  [type |-> "SubstreamOpenFailure", substream |-> f.substream_id[1], error |-> "Timeout"]

\* C11: the future pushed for OpenSubstream{protocol, substream_id} carries that
\* protocol and substream_id for as long as it is pending, and when the loop takes the
\* result of an outbound open that ran into the 5 second timeout, it calls
\* report_substream_open_failure for that protocol with that substream_id and the
\* error Timeout.
C11_TimeoutReported ==
  [][/\ (pc = "select" /\ rx # <<>> /\ rx' = Tail(rx)) =>
          /\ made + 1 \in DOMAIN pending_substreams'
          /\ pending_substreams'[made + 1].dir = "Outbound"
          /\ pending_substreams'[made + 1].protocol = <<Head(rx).protocol>>
          /\ pending_substreams'[made + 1].substream_id = <<Head(rx).substream_id>>
     /\ \A i \in DOMAIN pending_substreams \cap DOMAIN pending_substreams' :
          /\ pending_substreams'[i].dir = pending_substreams[i].dir
          /\ pending_substreams'[i].protocol = pending_substreams[i].protocol
          /\ pending_substreams'[i].substream_id = pending_substreams[i].substream_id
     /\ \A i \in DOMAIN pending_substreams \ DOMAIN pending_substreams' :
          (/\ pc' # "exited"
           /\ pending_substreams[i].st = "timeout"
           /\ pending_substreams[i].dir = "Outbound") =>
            \/ \E r \in reports' \ reports :
                 /\ r.name = pending_substreams[i].protocol[1]
                 /\ r.ev = TimeoutOf(pending_substreams[i])
            \/ /\ pc' = "report"
               /\ sending'[1].call.name = pending_substreams[i].protocol[1]
               /\ sending'[1].ev = TimeoutOf(pending_substreams[i])]_vars

\* C11, witness: the open asked for by the second command timed out and the handler of
\* its protocol "b" was sent the failure for substream 2
C11_Witness ==
  \E r \in reports :
    /\ r.name = "b" /\ r.result = "Ok"
    /\ r.ev = [type |-> "SubstreamOpenFailure", substream |-> 2, error |-> "Timeout"]

(***************************************************************************)
(* WebSocketTransport: the lifecycle of a connection id.                   *)
(***************************************************************************)
\* the lifecycle collections that record `id`
RecordedIn(id) ==
  {c \in {"pending_dials", "opened_raw", "pending_open"} :
     \/ c = "pending_dials" /\ id \in DOMAIN pending_dials
     \/ c = "opened_raw" /\ id \in DOMAIN opened_raw
     \/ c = "pending_open" /\ id \in pending_open}

\* C12: a connection id is recorded in at most one of pending_dials, opened_raw and
\* pending_open at a time.
C12_OneLifecycleState ==
  \A id \in 1..next_connection_id : Cardinality(RecordedIn(id)) <= 1

\* the events returned so far for `id` with a type in `types`
WsEventsOf(id, types) ==
  {i \in 1..Len(wsEvents) : wsEvents[i].id = id /\ wsEvents[i].type \in types}

\* the finished opens whose id is flagged in `canceled`, and those whose id is not
FinishedRaw(flagged) ==
  {i \in Finished(pending_raw_connections) :
     (pending_raw_connections[i].id \in canceled) = flagged}

\* C13: once cancel(id) was called while the open of id was in flight, its attempt is
\* left to finish and its result is discarded: no ConnectionOpened and no OpenFailure
\* is returned for id and id is never in opened_raw, so that no negotiation of id is
\* ever started; and a poll_next call that discards the result of a canceled id, while
\* the open of another id has finished, returns the event of such an id.
C13_CanceledOpenIsDiscarded ==
  /\ [](\A id \in rawCanceled :
          /\ WsEventsOf(id, {"ConnectionOpened", "OpenFailure"}) = {}
          /\ id \notin DOMAIN opened_raw
          /\ id \notin InFlight
          /\ id \in Opening => id \in canceled)
  /\ [][\A i \in DOMAIN pending_raw_connections \cap DOMAIN pending_raw_connections' :
          pending_raw_connections[i].id \in rawCanceled =>
            \/ pending_raw_connections'[i] = pending_raw_connections[i]
            \/ pending_raw_connections[i].st = "run"]_vars
  /\ [][((FinishedRaw(TRUE) \ DOMAIN pending_raw_connections') # {} /\ FinishedRaw(FALSE) # {}) =>
          /\ Len(wsEvents') = Len(wsEvents) + 1
          /\ wsEvents'[Len(wsEvents')].type \in {"ConnectionOpened", "OpenFailure"}
          /\ wsEvents'[Len(wsEvents')].id \notin canceled]_vars

\* C13, witness: the open of id 1 was canceled in flight and its result discarded, and
\* the call that discarded it returned ConnectionOpened of id 2
C13_Witness ==
  /\ rawCanceled = {1}
  /\ pending_raw_connections = <<>>
  /\ 1 \notin canceled
  /\ Len(wsEvents) = 1
  /\ wsEvents[1].type = "ConnectionOpened" /\ wsEvents[1].id = 2

\* the report_* calls the loop has made: those that returned and the suspended one
CallsMade == Cardinality(reports) + (IF pc = "report" THEN 1 ELSE 0)

\* C14: every result the running loop has taken from pending_substreams, a failure or
\* a timeout of an inbound accept included, was reported to the dispatcher: the
\* accepts and opens started are those still pending and those reported.
C14_EveryOutcomeReported ==
  pc # "exited" => made = Cardinality(DOMAIN pending_substreams) + CallsMade

\* the connection event loop when every step of the loop that can be taken is taken,
\* every pending accept or open ends (by its timeout at the latest) and both handlers
\* keep receiving from their channels
FairSpecLoop ==
  /\ SpecCN
  /\ WF_vars(ReportResume)
  /\ WF_vars(\E i \in 1..MaxStreams : SubstreamResult(i))
  /\ WF_vars(OpenSubstream)
  /\ WF_vars(ConnectionClosed)
  /\ WF_vars(ProtocolsExited)
  /\ WF_vars(\E i \in 1..MaxStreams, st \in {"ok", "failed", "timeout"}, name \in ProtocolNames :
               Resolve(i, st, name))
  /\ WF_vars(HandlerRecv("a"))
  /\ WF_vars(HandlerRecv("b"))

\* the outcomes reported for the open held by future `i` for substream id `k`
OutcomesOf(i, k) ==
  {r \in reports :
     \/ IsOpened(r) /\ r.ev.substream.id = i /\ r.ev.substream.dir = "Outbound"
     \/ r.ev.type = "SubstreamOpenFailure" /\ r.ev.substream = k}

\* C15: every OpenSubstream command the loop has taken leads to an outcome reported for
\* its substream id, a SubstreamOpened or a SubstreamOpenFailure, and never to more
\* than one.
C15_EveryOpenHasAnOutcome ==
  /\ \A i \in 1..MaxStreams, k \in 1..MaxStreams :
       (/\ i \in DOMAIN pending_substreams
        /\ pending_substreams[i].dir = "Outbound"
        /\ pending_substreams[i].substream_id = <<k>>) ~> (OutcomesOf(i, k) # {})
  /\ [](\A i \in 1..MaxStreams, k \in 1..MaxStreams : Cardinality(OutcomesOf(i, k)) <= 1)

\* the transport with the callers that dial, open, negotiate and cancel, and the
\* network their attempts run on
NextDial ==
  \/ \E address \in Addresses : dial(address)
  \/ \E addresses \in AddressLists : open(addresses)
  \/ \E id \in 1..MaxConnections : negotiate(id)
  \/ \E id \in 1..MaxConnections : cancel(id)
  \/ \E i \in 1..2 * MaxConnections + MaxIncoming, st \in {"ok", "err", "timeout"} :
       ConnectionResolves(i, st)
  \/ \E i \in 1..2 * MaxConnections + MaxIncoming, address \in Addresses, st \in {"ok", "err"} :
       AttemptResolves(i, address, st)
  \/ ws_poll_next

\* the same when the transport keeps being polled and every pending future ends (by
\* connection_open_timeout at the latest)
FairSpecWS ==
  /\ InitScenario /\ [][NextDial]_vars
  /\ WF_vars(ws_poll_next)
  /\ WF_vars(\E i \in 1..2 * MaxConnections + MaxIncoming, st \in {"ok", "err", "timeout"} :
               ConnectionResolves(i, st))
  /\ WF_vars(\E i \in 1..2 * MaxConnections + MaxIncoming, address \in Addresses,
                st \in {"ok", "err"} : AttemptResolves(i, address, st))

\* the event poll_next owes to the dial or negotiation held by future `f`
DialEventOf(f) ==
  IF f.st = "ok"
    THEN [type |-> "ConnectionEstablished", id |-> f.id, address |-> <<>>, error |-> "none"]
    ELSE [type |-> "DialFailure", id |-> f.id, address |-> pending_dials[f.id],
          error |-> IF f.st = "timeout" THEN "Timeout" ELSE "Error"]

\* C16: a dial or negotiation that returned Ok ends, and its id, if not canceled, gets
\* exactly one event when the transport is polled: ConnectionEstablished after a
\* success, DialFailure with the id otherwise, with the error Timeout after the expiry
\* of the timeout. The call that returns it does not end the stream and leaves the
\* dials and negotiations of the other ids as they are.
C16_DialYieldsOneEvent ==
  /\ [](\A id \in 1..next_connection_id :
          id \notin canceled =>
            /\ Cardinality(WsEventsOf(id, {"ConnectionEstablished", "DialFailure"}))
                 + Cardinality({id} \cap InFlight) <= 1
            /\ id \in DOMAIN pending_dials =>
                 Cardinality(WsEventsOf(id, {"ConnectionEstablished"}))
                   + Cardinality({id} \cap InFlight) = 1)
  /\ [][\A i \in DOMAIN pending_connections \ DOMAIN pending_connections' :
          (pending_connections[i].kind # "accept" /\ pending_connections[i].id \notin canceled) =>
            /\ wsEvents' = Append(wsEvents, DialEventOf(pending_connections[i]))
            /\ wsEnded' = wsEnded
            /\ \A j \in DOMAIN pending_connections \ {i} :
                 pending_connections[j].kind # "accept" =>
                   /\ j \in DOMAIN pending_connections'
                   /\ pending_connections'[j] = pending_connections[j]]_vars
  /\ \A id \in 1..MaxConnections :
       (id \in InFlight /\ id \notin canceled)
         ~> (id \notin InFlight
             /\ (id \in canceled
                 \/ WsEventsOf(id, {"ConnectionEstablished", "DialFailure"}) # {}))

\* C16, witness: the dial of id 1 ran into the timeout and the negotiation of id 2
\* went through; each got its event, and nothing was canceled
C16_Witness ==
  /\ canceled = {}
  /\ 2 \notin InFlight
  /\ Len(wsEvents) = 3
  /\ \E i \in 1..3 : wsEvents[i] = [type |-> "DialFailure", id |-> 1, address |-> WsAddress,
                                    error |-> "Timeout"]
  /\ \E i \in 1..3 : wsEvents[i].type = "ConnectionOpened" /\ wsEvents[i].id = 2
  /\ wsEvents[3] = [type |-> "ConnectionEstablished", id |-> 2, address |-> <<>>,
                    error |-> "none"]

\* the event poll_next owes to the open held by future `f`
RawEventOf(f) ==
  IF f.st = "ok"
    THEN [type |-> "ConnectionOpened", id |-> f.id, address |-> f.address[1], error |-> "none"]
    ELSE [type |-> "OpenFailure", id |-> f.id, address |-> <<>>, error |-> "none"]

\* C17: an open that is not canceled gets exactly one event for its id, never two and
\* never both kinds: ConnectionOpened with the address of the attempt that succeeded
\* first, the socket then being kept in opened_raw under the id and the other attempts
\* abandoned, or OpenFailure once no attempt is left, at once for an empty address list.
C17_OpenYieldsOneEvent ==
  /\ [](\A id \in 1..next_connection_id :
          Cardinality(WsEventsOf(id, {"ConnectionOpened", "OpenFailure"}))
            + Cardinality({id} \cap Opening) <= 1)
  /\ [](\A i \in DOMAIN pending_raw_connections :
          LET f == pending_raw_connections[i] IN
            /\ f.st = "err" => f.running = {}
            /\ f.st = "ok" => f.running = {} /\ multiaddr_into_url(f.address[1]).ok)
  /\ [][\A i \in DOMAIN pending_raw_connections \cap DOMAIN pending_raw_connections' :
          LET f == pending_raw_connections[i]
              g == pending_raw_connections'[i]
          IN /\ f.st # "run" => g = f
             /\ (f.st = "run" /\ g.st = "ok") => g.address[1] \in f.running
             /\ (f.st = "run" /\ g.st = "err") => Cardinality(f.running) = 1]_vars
  /\ [][\A i \in DOMAIN pending_raw_connections \ DOMAIN pending_raw_connections' :
          LET f == pending_raw_connections[i] IN
            f.id \notin canceled =>
              /\ wsEvents' = Append(wsEvents, RawEventOf(f))
              /\ IF f.st = "ok"
                   THEN opened_raw' = Put(opened_raw, f.id, f.address[1])
                   ELSE opened_raw' = opened_raw]_vars
  /\ \A id \in 1..MaxConnections :
       (id \in Opening)
         ~> (id \notin Opening
             /\ (id \in rawCanceled
                 \/ WsEventsOf(id, {"ConnectionOpened", "OpenFailure"}) # {}))

\* C17, witness: of the two attempts of open 1 the one to the wss address succeeded,
\* after the other had failed, and was returned; open 2 of no address got OpenFailure
C17_Witness ==
  /\ rawCanceled = {}
  /\ 1 \in DOMAIN opened_raw /\ opened_raw[1] = WssAddress
  /\ \E i \in 1..Len(wsEvents) :
       wsEvents[i] = [type |-> "ConnectionOpened", id |-> 1, address |-> WssAddress,
                      error |-> "none"]
  /\ \E i \in 1..Len(wsEvents) : wsEvents[i].type = "OpenFailure" /\ wsEvents[i].id = 2
  /\ Len(wsEvents) = 2

\* C18: accept(id) and reject(id) return Ok only for an id whose connection waits for
\* validation: its ConnectionEstablished was returned and it was neither accepted nor
\* rejected. Either call takes the connection out of pending_open, so that accept(id)
\* and reject(id) return ConnectionDoesntExist from then on; the event loop of an id is
\* started by an accept that returns Ok and by nothing else, and never for an id whose
\* reject returned Ok.
C18_ValidationConsumes ==
  /\ [](\A id \in 1..next_connection_id :
          /\ (accept_result(id) = "Ok" \/ reject_result(id) = "Ok") =>
               /\ WsEventsOf(id, {"ConnectionEstablished"}) # {}
               /\ id \notin started \cup rejected
          /\ id \in started \cup rejected =>
               /\ accept_result(id) = "ConnectionDoesntExist"
               /\ reject_result(id) = "ConnectionDoesntExist")
  /\ [](started \cap rejected = {})
  /\ [][started' # started =>
          \E id \in 1..next_connection_id :
            /\ accept_result(id) = "Ok"
            /\ started' = started \cup {id}
            /\ pending_open' = pending_open \ {id}
            /\ rejected' = rejected]_vars
  /\ [][rejected' # rejected =>
          \E id \in 1..next_connection_id :
            /\ reject_result(id) = "Ok"
            /\ rejected' = rejected \cup {id}
            /\ pending_open' = pending_open \ {id}
            /\ started' = started]_vars

\* C18, witness: connection 1 was accepted and connection 2 rejected
C18_Witness ==
  /\ started = {1}
  /\ rejected = {2}
  /\ pending_open = {}

\* the negotiations pushed by the step
NegotiationsStarted ==
  {i \in DOMAIN pending_connections' \ DOMAIN pending_connections :
     pending_connections'[i].kind = "negotiate"}

\* C19: negotiate(id) returns Ok only for an id in opened_raw, whose ConnectionOpened
\* was returned and which has no negotiation behind it, and ConnectionDoesntExist
\* otherwise; a negotiation is started only by a negotiate that returns Ok, which takes
\* the raw connection out of opened_raw, so that negotiate(id) fails from then on; the
\* failure or timeout of the negotiation is returned by poll_next as DialFailure of
\* id with the address of the raw connection, the stream going on.
C19_NegotiateConsumes ==
  /\ [](\A id \in 1..next_connection_id :
          /\ negotiate_result(id) \in {"Ok", "ConnectionDoesntExist"}
          /\ negotiate_result(id) = "Ok" <=> id \in DOMAIN opened_raw
          /\ negotiate_result(id) = "Ok" =>
               /\ WsEventsOf(id, {"ConnectionOpened"}) # {}
               /\ id \notin InFlight
               /\ WsEventsOf(id, {"ConnectionEstablished", "DialFailure"}) = {})
  /\ [][\A i \in NegotiationsStarted :
          LET id == pending_connections'[i].id IN
            /\ negotiate_result(id) = "Ok"
            /\ NegotiationsStarted = {i}
            /\ id \notin DOMAIN opened_raw'
            /\ pending_dials' = Put(pending_dials, id, opened_raw[id])]_vars
  /\ [][\A i \in DOMAIN pending_connections \ DOMAIN pending_connections' :
          LET f == pending_connections[i] IN
            (f.kind = "negotiate" /\ f.st # "ok" /\ f.id \notin canceled) =>
              /\ wsEvents' = Append(wsEvents, DialEventOf(f))
              /\ wsEvents'[Len(wsEvents')].type = "DialFailure"
              /\ wsEvents'[Len(wsEvents')].address \in {WsAddress, WssAddress}
              /\ wsEnded' = wsEnded]_vars

\* C19, witness: the raw connection 1 was negotiated, negotiate(1) fails since, and the
\* failure of the negotiation was returned as DialFailure
C19_Witness ==
  /\ negotiate_result(1) = "ConnectionDoesntExist"
  /\ Len(wsEvents) = 2
  /\ wsEvents[1].type = "ConnectionOpened" /\ wsEvents[1].id = 1
  /\ wsEvents[2] = [type |-> "DialFailure", id |-> 1, address |-> WsAddress,
                    error |-> "Error"]

(***************************************************************************)
(* HandshakeService: the local payload.                                    *)
(***************************************************************************)
\* C20: the payload a stream is given by start_send is the one set last, by
\* set_handshake or at construction, at the time the entry gets to SinkReady;
\* set_handshake changes nothing a stream was already given, and no stream is given a
\* payload twice.
C20_PayloadSetLastIsSent ==
  /\ [](\A s \in 1..Len(written) : Len(written[s]) <= 1)
  /\ [][\A s \in 1..Len(written) :
          /\ written'[s] # written[s] => written'[s] = Append(written[s], handshake)
          /\ handshake' # handshake => written'[s] = written[s]]_vars

\* C20, witness: the stream of the first handshake was given [1, 2, 3]; then [4] was
\* set and the second handshake, registered before that, sent [4]
C20_Witness ==
  /\ Len(written) = 2
  /\ written[1] = <<<<1, 2, 3>>>>
  /\ written[2] = <<<<4>>>>
  /\ handshake = <<4>>

(***************************************************************************)
(* HandshakeService: cleanup and the three paths.                          *)
(***************************************************************************)
\* the engine holds nothing for `p`: no entry in any role and no queued result
HoldsNothingFor(p) ==
  /\ \A d \in Direction : <<p, d>> \notin DOMAIN substreams
  /\ \A i \in 1..Len(ready) : ready[i].peer # p

\* C21: once remove_outbound(p) and remove_inbound(p) have both been called, which is
\* the case when one of them returns and the entry of the other role is gone as well,
\* the engine holds no entry and no queued result for p in any role.
C21_CleanupRemovesAll ==
  [][\A p \in Peers :
       ( /\ remove_outbound(p) \/ remove_inbound(p)
         /\ <<p, Outbound>> \notin DOMAIN substreams'
         /\ <<p, Inbound>> \notin DOMAIN substreams' )
       => HoldsNothingFor(p)']_vars

(***************************************************************************)
(* ProtocolInfo: back-pressure.                                            *)
(***************************************************************************)
\* the connection event loop and its handlers, with what tokio guarantees: the
\* semaphore of a bounded channel serves its waiters in order, so a suspended send
\* gets the room that is made again and again; a handler that holds its Receiver and
\* has an event queued receives it; `select!` takes a command that stays queued
FairSpecReport ==
  /\ SpecCN
  /\ SF_vars(ReportResume)
  /\ WF_vars(OpenSubstream)
  /\ WF_vars(HandlerRecv("a"))
  /\ WF_vars(HandlerRecv("b"))

\* `q2` is `q` with one event added at its tail
Appended(q, q2) == Len(q2) = Len(q) + 1 /\ SubSeq(q2, 1, Len(q)) = q

FailureOf(f) ==
  [type |-> "SubstreamOpenFailure", substream |-> f.substream_id[1],
   error |-> IF f.st = "timeout" THEN "Timeout" ELSE "NegotiationFailed"]

\* the loop has taken the failure of an accept or open: it has reported one, is
\* reporting one, or has only logged one (an accept or open that was started is then
\* neither pending nor reported)
FailureTaken ==
  /\ pc # "exited"
  /\ \/ \E r \in reports : r.ev.type = "SubstreamOpenFailure"
     \/ pc = "report" /\ sending[1].ev.type = "SubstreamOpenFailure"
     \/ made > Cardinality(DOMAIN pending_substreams) + CallsMade

\* C23: the step in which the result of a failed or timed-out negotiation leaves
\* pending_substreams is either the loop returning for a reason of its own (the
\* connection has ended, or every handler has exited) or it fails that substream
\* only: the loop goes on, at most suspended in the report of that failure to the
\* protocol of that substream, the connection is not reported as closed, the other
\* pending accepts and opens and the queued commands are kept, and no channel gets
\* anything but that failure. After that an inbound
\* stream can still be accepted whenever the loop is at its select!, and a queued
\* OpenSubstream command is still taken, unless the loop returns.
C23_FailureIsLocal ==
  /\ [][\A i \in DOMAIN pending_substreams \ DOMAIN pending_substreams' :
          pending_substreams[i].st \in {"failed", "timeout"} =>
            IF pc' = "exited"
              THEN conn # "open" \/ (~txAlive /\ rx = <<>>)
              ELSE /\ pc = "select" /\ pc' \in {"select", "report"}
                   /\ closedReported' = closedReported
                   /\ conn' = conn /\ rx' = rx
                   /\ \A c \in DOMAIN chan :
                        chan'[c] # chan[c] =>
                          /\ pending_substreams[i].protocol = <<c>>
                          /\ chan'[c] = Append(chan[c], FailureOf(pending_substreams[i]))
                   /\ DOMAIN pending_substreams' = DOMAIN pending_substreams \ {i}
                   /\ \A j \in DOMAIN pending_substreams' :
                        pending_substreams'[j] = pending_substreams[j]
                   /\ pc' = "report" =>
                        /\ <<sending'[1].call.name>> = pending_substreams[i].protocol
                        /\ sending'[1].ev = FailureOf(pending_substreams[i])]_vars
  /\ [](FailureTaken => closedReported = 0)
  /\ []((FailureTaken /\ pc = "select" /\ conn = "open" /\ made + Len(rx) < MaxStreams)
          => ENABLED AcceptStream)
  /\ \A n \in 1..MaxStreams :
       (FailureTaken /\ Len(rx) = n) ~> (Len(rx) < n \/ pc = "exited")

\* C23, witness: the first open timed out and its failure was reported; after that the
\* loop, still running on the open connection, has taken the next command and started
\* its open
C23_Witness ==
  /\ pc = "select" /\ conn = "open" /\ closedReported = 0
  /\ \E r \in reports :
       r.ev = [type |-> "SubstreamOpenFailure", substream |-> 1, error |-> "Timeout"]
  /\ made = 2
  /\ DOMAIN pending_substreams = {2}
  /\ pending_substreams[2].dir = "Outbound" /\ pending_substreams[2].st = "run"

(***************************************************************************)
(* ProtocolInfo: a report that fails.                                      *)
(***************************************************************************)
IsFailedReport(r) == r.result \in {"ChannelClosed", "ProtocolNotSupported"}

\* C24: a report_* call returns an error exactly when its protocol is not in the table
\* (ProtocolNotSupported) or the handler of its protocol has dropped its Receiver
\* (channel closed). The step in which it does so changes neither the table nor any
\* channel, and the loop is back at its select!, the connection not reported as
\* closed and the other pending accepts and opens kept. Whatever has failed before, a
\* report for an installed protocol whose handler holds its Receiver returns Ok with
\* its event queued on the channel of that protocol.
C24_FailedReportIsLocal ==
  [][\A r \in reports' \ reports :
       /\ IsFailedReport(r) <=>
            (r.name \notin DOMAIN protocols \/ ~rxOpen[protocols[r.name]])
       /\ r.name \notin DOMAIN protocols <=> r.result = "ProtocolNotSupported"
       /\ IsFailedReport(r) =>
            /\ protocols' = protocols /\ chan' = chan /\ rxOpen' = rxOpen
            /\ pc' = "select" /\ sending' = <<>>
            /\ closedReported' = closedReported /\ conn' = conn /\ rx' = rx
            /\ \A j \in DOMAIN pending_substreams' :
                 j \in DOMAIN pending_substreams
                   /\ pending_substreams'[j] = pending_substreams[j]
            /\ Cardinality(DOMAIN pending_substreams \ DOMAIN pending_substreams') <= 1
       /\ ~IsFailedReport(r) =>
            /\ r.result = "Ok"
            /\ chan' = [chan EXCEPT ![protocols[r.name]] = Append(@, r.ev)]
            /\ protocols' = protocols]_vars

\* C24, witness: the handler of "a" has exited and a report to it has failed with a
\* closed channel; a report to "b" has returned Ok and its event is on the channel of
\* "b"; the loop is at its select! on the open connection
C24_Witness ==
  /\ pc = "select" /\ conn = "open" /\ closedReported = 0
  /\ ~rxOpen["a"] /\ rxOpen["b"]
  /\ \E r1, r2 \in reports :
       /\ r1.name = "a" /\ r1.result = "ChannelClosed"
       /\ r2.name = "b" /\ r2.result = "Ok"
       /\ chan["b"] = <<r2.ev>>

(***************************************************************************)
(* ProtocolInfo: the table.                                                *)
(***************************************************************************)
\* C25: the table is the one ProtocolInfo was constructed with in every state, and no
\* step, a report_* call that succeeds, fails or suspends and a poll_next of the
\* command channel included, adds, removes or rebinds an entry.
C25_TableIsFixed ==
  /\ [](protocols = [name \in Installed |-> name])
  /\ [][/\ DOMAIN protocols' = DOMAIN protocols
        /\ \A name \in DOMAIN protocols : protocols'[name] = protocols[name]]_vars

\* C25, witness: a substream was reported to its handler, a report for the unknown
\* protocol "x" has failed, both commands were taken from the command channel, and
\* the table still binds "a" and "b" to their channels
C25_Witness ==
  /\ \E r1, r2 \in reports :
       /\ r1.result = "Ok" /\ r1.ev.type = "SubstreamOpened"
       /\ r2.result = "ProtocolNotSupported" /\ r2.name = "x"
  /\ made = 2 /\ rx = <<>>
  /\ \A r \in reports : IsOpened(r) => r.ev.substream.dir = "Outbound"
  /\ protocols = [a |-> "a", b |-> "b"]

(***************************************************************************)
(* WebSocketTransport: the event stream.                                   *)
(***************************************************************************)
\* C26: no poll_next call has returned Poll::Ready(None), whatever the listener has
\* yielded and whatever dials have failed: a call returns one TransportEvent or
\* Pending.
C26_NeverEndOfStream ==
  /\ [](~wsEnded)
  /\ [][Len(wsEvents') <= Len(wsEvents) + 1]_vars

(***************************************************************************)
(* WebSocketTransport: DialFailure.                                        *)
(***************************************************************************)
\* the futures of pending_connections whose result the step has taken
Polled == DOMAIN pending_connections \ DOMAIN pending_connections'

\* C30: a DialFailure is returned only in a step that takes the failed result of a
\* dial or negotiate future with the id of the event, never of an inbound handshake,
\* and its address is the one pending_dials holds for that id; that entry was written
\* by the dial or negotiate call of the id (for negotiate: the address the raw
\* connection was opened with) and is never rebound; an id has at most one
\* DialFailure, and none while its dial or negotiation is in flight; when the result
\* of an inbound handshake is taken, its id has no entry in pending_dials and no
\* DialFailure, in that call or before.
C30_DialFailureMatchesCall ==
  /\ [](\A id \in 1..next_connection_id :
          Cardinality(WsEventsOf(id, {"DialFailure"})) + Cardinality({id} \cap InFlight) <= 1)
  /\ [][/\ \A n \in Len(wsEvents) + 1..Len(wsEvents') :
             wsEvents'[n].type = "DialFailure" =>
               /\ \E i \in Polled :
                    /\ pending_connections[i].id = wsEvents'[n].id
                    /\ pending_connections[i].kind \in {"dial", "negotiate"}
                    /\ pending_connections[i].st \in {"err", "timeout"}
               /\ \A i \in DOMAIN pending_connections :
                    pending_connections[i].kind = "accept" =>
                      pending_connections[i].id # wsEvents'[n].id
               /\ wsEvents'[n].id \in DOMAIN pending_dials
               /\ wsEvents'[n].address = pending_dials[wsEvents'[n].id]
               /\ wsEvents'[n].id \notin DOMAIN pending_dials'
        /\ \A id \in DOMAIN pending_dials' :
             IF id \in DOMAIN pending_dials
               THEN pending_dials'[id] = pending_dials[id]
               ELSE /\ id \in InFlight'
                    /\ \/ id = next_connection_id' /\ next_connection_id' = next_connection_id + 1
                       \/ id \in DOMAIN opened_raw /\ pending_dials'[id] = opened_raw[id]
        /\ \A i \in Polled :
             pending_connections[i].kind = "accept" =>
               /\ pending_connections[i].id \notin DOMAIN pending_dials
               /\ \A n \in 1..Len(wsEvents') :
                    wsEvents'[n].type = "DialFailure" =>
                      wsEvents'[n].id # pending_connections[i].id]_vars

\* C30, witness: the dial of id 1 to the wss address and the handshake of the inbound
\* connection, id 2, have both failed and both results were taken; the only event is
\* the DialFailure of id 1 with the address dialed
C30_Witness ==
  /\ next_connection_id = 2 /\ incoming = 1 /\ listener = <<>>
  /\ pushed = 2 /\ DOMAIN pending_connections = {}
  /\ wsEvents = <<[type |-> "DialFailure", id |-> 1, address |-> WssAddress,
                   error |-> "Error"]>>
  /\ ~wsEnded

(***************************************************************************)
(* HandshakeService: the three paths.                                      *)
(***************************************************************************)
\* `p` is an initial part of `q`
IsPrefix(p, q) == Len(p) <= Len(q) /\ SubSeq(q, 1, Len(p)) = p

\* the primitives an inbound-accepting entry goes through: Stream::poll_next
\* (ReadHandshake), then Sink::poll_ready (SendHandshake), Sink::start_send (SinkReady)
\* and Sink::poll_flush (HandshakeSent)
AcceptingPath == <<"poll_next", "poll_ready", "start_send", "poll_flush">>

\* the substreams handed to the engine in direction `dir`
HandedAs(dir) == {s \in 1..Len(handed) : handed[s].key[2] = dir}

\* C27: on a substream registered with accept_inbound the engine calls poll_next
\* first and poll_ready, start_send and poll_flush only after poll_next has returned
\* a payload, each once and in that order; the stream is given nothing before the
\* read; an InboundAccepted event carries a substream that was registered with
\* accept_inbound for the peer of the event, on which all four have answered and
\* which was given exactly one payload.
C27_AcceptingReadsFirst ==
  /\ \A s \in HandedAs(InboundAccepting) :
       /\ IsPrefix(answered[s], AcceptingPath)
       /\ written[s] # <<>> => IsPrefix(<<"poll_next", "poll_ready", "start_send">>, answered[s])
  /\ \A i \in 1..Len(events) :
       events[i].type = "InboundAccepted" =>
         /\ events[i].sub \in HandedAs(InboundAccepting)
         /\ handed[events[i].sub].key[1] = events[i].peer
         /\ answered[events[i].sub] = AcceptingPath
         /\ Len(written[events[i].sub]) = 1

\* C27, witness: the substream accepted for peer 2 was read, answered with [1, 2, 3]
\* and flushed, and InboundAccepted was returned with it
C27_Witness ==
  /\ Len(events) = 1
  /\ events[1].type = "InboundAccepted" /\ events[1].peer = 2 /\ events[1].sub = 1
  /\ answered[1] = AcceptingPath
  /\ written[1] = <<<<1, 2, 3>>>>
  /\ <<2, InboundAccepting>> \notin DOMAIN substreams

\* the primitives an outbound entry goes through: Sink::poll_ready (SendHandshake),
\* Sink::start_send (SinkReady), Sink::poll_flush (HandshakeSent), then
\* Stream::poll_next (ReadHandshake)
OutboundPath == <<"poll_ready", "start_send", "poll_flush", "poll_next">>

\* the state an outbound entry is in once `n` of its primitives have answered
OutboundStateAfter(n) ==
  CASE n = 0 -> "SendHandshake"
    [] n = 1 -> "SinkReady"
    [] n = 2 -> "HandshakeSent"
    [] OTHER -> "ReadHandshake"

\* C28: on a substream registered with negotiate_outbound the engine calls
\* poll_ready, start_send, poll_flush and poll_next, each once and in that order, so
\* it never reads before its payload was flushed; the state of the pending entry is
\* the one that follows the primitives that have answered, never an earlier or a later
\* one; an OutboundNegotiated event carries a substream that was registered with
\* negotiate_outbound for the peer of the event, on which all four have answered,
\* and the payload read from that substream.
C28_OutboundInOrder ==
  /\ \A s \in HandedAs(Outbound) : IsPrefix(answered[s], OutboundPath)
  /\ \A p \in Peers :
       <<p, Outbound>> \in DOMAIN substreams =>
         substreams[<<p, Outbound>>].state =
           OutboundStateAfter(Len(answered[substreams[<<p, Outbound>>].sub]))
  /\ \A i \in 1..Len(events) :
       events[i].type = "OutboundNegotiated" =>
         /\ events[i].sub \in HandedAs(Outbound)
         /\ handed[events[i].sub].key[1] = events[i].peer
         /\ answered[events[i].sub] = OutboundPath
         /\ events[i].handshake = handed[events[i].sub].remote

\* the primitives an inbound entry registered with send_handshake goes through
SendPath == <<"poll_ready", "start_send", "poll_flush">>

\* the primitive an inbound entry registered with read_handshake goes through
ReadPath == <<"poll_next">>

\* the inbound substreams registered with send_handshake, and with read_handshake
HandedToSend == {s \in HandedAs(Inbound) : handed[s].first = "SendHandshake"}

HandedToRead == {s \in HandedAs(Inbound) : handed[s].first = "ReadHandshake"}

\* C29: on a substream registered with send_handshake the engine calls poll_ready,
\* start_send and poll_flush in that order and never poll_next, and an
\* InboundNegotiated event that carries such a substream is returned only when all
\* three have answered and the stream was given one payload; on a substream registered
\* with read_handshake the engine only calls poll_next, and the InboundNegotiated
\* event that carries it holds the payload read from it; every InboundNegotiated event
\* carries a substream registered for its peer in direction Inbound.
C29_InboundPaths ==
  /\ \A s \in HandedToSend : IsPrefix(answered[s], SendPath)
  /\ \A s \in HandedToRead : IsPrefix(answered[s], ReadPath) /\ written[s] = <<>>
  /\ \A i \in 1..Len(events) :
       events[i].type = "InboundNegotiated" =>
         /\ events[i].sub \in HandedAs(Inbound)
         /\ handed[events[i].sub].key[1] = events[i].peer
         /\ events[i].sub \in HandedToSend =>
              /\ answered[events[i].sub] = SendPath
              /\ Len(written[events[i].sub]) = 1
         /\ events[i].sub \in HandedToRead =>
              /\ answered[events[i].sub] = ReadPath
              /\ events[i].handshake = handed[events[i].sub].remote

(***************************************************************************)
(* QuicConnection: the end of the connection.                              *)
(***************************************************************************)
\* C31: when accepting the next stream yields the end of the connection (Ok(None) or
\* an error), the loop reports connection_closed once and stops: the report is made
\* only by the loop at `select!` with the connection ended, in the step in which the
\* loop exits, and that step reports nothing else; it is made at most once; a loop
\* that exits while a handler is alive or a command is queued has made it; the arm is
\* ready whenever the loop selects with the connection ended; and an exited loop
\* reports no SubstreamOpened and no SubstreamOpenFailure: no report_* call returns
\* and no channel changes.
C31_ConnectionClosedOnce ==
  /\ [](closedReported <= 1)
  /\ [](closedReported = 1 =>
          pc = "exited" /\ conn # "open" /\ pending_substreams = <<>> /\ sending = <<>>)
  /\ []((pc = "select" /\ conn # "open") => ENABLED ConnectionClosed)
  /\ [][/\ closedReported' # closedReported =>
             /\ pc = "select" /\ conn # "open"
             /\ closedReported' = closedReported + 1
             /\ pc' = "exited"
             /\ reports' = reports /\ chan' = chan
        /\ (pc = "select" /\ pc' = "exited" /\ (txAlive \/ rx # <<>>)) =>
             (conn # "open" /\ closedReported' = closedReported + 1)
        /\ pc = "exited" =>
             (pc' = "exited" /\ reports' = reports /\ chan' = chan /\ sending' = sending
              /\ closedReported' = closedReported)]_vars

\* C31, witness: the connection ended with a negotiation still pending and an event
\* reported before; the loop reported the end once and has exited
C31_Witness ==
  /\ closedReported = 1 /\ pc = "exited" /\ conn = "ended"
  /\ made = 2
  /\ \E r \in reports : r.result = "Ok" /\ r.ev.type = "SubstreamOpened"
  /\ \E c \in Installed : rxOpen[c]

(***************************************************************************)
(* HandshakeService: the ready list and the entries.                       *)
(***************************************************************************)
\* C32: every (peer, role) key queued in `ready` has an entry in `substreams`, and
\* no poll_next call fails its `expect("peer to exist")`.
C32_QueuedHasEntry ==
  /\ Queued(ready) \subseteq DOMAIN substreams
  /\ ~(ret.t = "panic" /\ ret.why = "expect")

\* C33: poll_next never aborts on an InboundAccepting item at the head of `ready`:
\* no call ends in the `todo!()` of the pop before the progress loop, whichever call
\* completed the entry.
C33_AcceptingDelivered ==
  ~(ret.t = "panic" /\ ret.why = "todo")

(***************************************************************************)
(* HandshakeService: the kind of an error event.                           *)
(***************************************************************************)
\* C34: the kind of a negotiation-error event matches the role of the failed entry:
\* OutboundNegotiationError for an entry registered with negotiate_outbound,
\* InboundNegotiationError for one registered with read_handshake, send_handshake or
\* accept_inbound.
C34_ErrorKindMatchesRole ==
  \A i \in 1..Len(events) :
    IsError(events[i]) =>
      events[i].type = IF events[i].dir = Outbound THEN "OutboundNegotiationError"
                       ELSE "InboundNegotiationError"

(***************************************************************************)
(* HandshakeService: what becomes of a substream.                          *)
(***************************************************************************)
\* the substreams the engine holds
Held(subs) == {subs[k].sub : k \in DOMAIN subs}

\* C35: a substream handed to the engine leaves it only inside the event a poll_next
\* call returns or as the return value of remove_outbound / remove_inbound, also when
\* its key is registered again; and an event carries the payload read from the
\* substream it carries.
C35_LeavesInOneWay ==
  /\ [][\A k \in DOMAIN substreams :
          LET s == substreams[k].sub IN
            \/ s \in Held(substreams')
            \/ /\ Len(events') = Len(events) + 1
               /\ IsSuccess(events'[Len(events')])
               /\ events'[Len(events')].sub = s
            \/ /\ k[2] = Outbound /\ remove_outbound(k[1])
            \/ /\ k[2] = Inbound /\ remove_inbound(k[1])]_vars
  /\ [](\A i \in 1..Len(events) :
          (IsSuccess(events[i]) /\ events[i].handshake # <<>>) =>
            events[i].handshake = handed[events[i].sub].remote)

(***************************************************************************)
(* HandshakeService::is_empty.                                             *)
(***************************************************************************)
\* C36: is_empty() is true exactly when the engine has nothing left to deliver, no
\* entry and no result queued in `ready`; and a poll_next call made while is_empty()
\* is true returns Pending and emits nothing.
C36_EmptyMeansNothingLeft ==
  /\ [](is_empty <=> (DOMAIN substreams = {} /\ ready = <<>>))
  /\ [][(is_empty /\ poll_next) =>
          (ret'.t = "pending" /\ events' = events /\ ~panicked')]_vars

(***************************************************************************)
(* WebSocketTransport::dial: an address that cannot be converted.          *)
(***************************************************************************)
\* C37: a dial whose address multiaddr_into_url cannot convert (no supported
\* transport stack, no peer id, or a peer id that is none) returns the error at once
\* and changes nothing: the step records no pending dial, schedules no attempt and
\* leaves every collection of the transport as it was; only convertible addresses
\* are ever recorded in pending_dials; and nothing is ever recorded, in flight or
\* emitted for the id of such a call.
C37_BadAddressChangesNothing ==
  /\ [][/\ refused' # refused =>
             /\ refused' = refused \cup {next_connection_id'}
             /\ next_connection_id' \notin refused
             /\ UNCHANGED <<pending_dials, pending_connections, pending_raw_connections,
                            opened_raw, canceled, pending_open, listener, pushed, started,
                            wsEvents, wsEnded>>
        /\ \A id \in DOMAIN pending_dials' \ DOMAIN pending_dials :
             /\ multiaddr_into_url(pending_dials'[id]).ok
             /\ id \notin refused']_vars
  /\ [](\A id \in refused :
          /\ RecordedIn(id) = {}
          /\ id \notin InFlight \cup Opening \cup started
          /\ WsEventsOf(id, {"ConnectionEstablished", "DialFailure", "ConnectionOpened",
                             "OpenFailure"}) = {})

\* C37, witness: the dial of connection 1 was refused for its address; the dial of
\* connection 2 went through and failed later, and the transport has returned the
\* DialFailure of connection 2 and nothing else
C37_Witness ==
  /\ refused = {1}
  /\ Len(wsEvents) = 1
  /\ wsEvents[1].type = "DialFailure" /\ wsEvents[1].id = 2
  /\ pending_connections = <<>>

(***************************************************************************)
(* QuicConnection: the handlers have exited.                               *)
(***************************************************************************)
\* C38: once every handler has exited and no command is left, the None arm of
\* next_event() is ready whenever the loop selects, and the loop does terminate; the
\* exit through that arm reports nothing (no report_* call returns, no channel
\* changes, connection_closed is not reported) and starts nothing; an exited loop
\* accepts no stream, takes no command and reports nothing; and a loop whose
\* connection is open and which has a handler alive or a command queued does not
\* exit.
C38_ExitsWithItsHandlers ==
  /\ []((pc = "select" /\ ~txAlive /\ rx = <<>>) => ENABLED ProtocolsExited)
  /\ [][/\ (pc # "exited" /\ pc' = "exited") =>
             /\ pc = "select"
             /\ conn # "open" \/ (~txAlive /\ rx = <<>>)
             /\ closedReported' = closedReported => (~txAlive /\ rx = <<>>)
             /\ reports' = reports /\ chan' = chan /\ sending' = sending
             /\ made' = made /\ next_substream_id' = next_substream_id /\ rx' = rx
        /\ pc = "exited" =>
             /\ pc' = "exited"
             /\ made' = made /\ next_substream_id' = next_substream_id /\ rx' = rx
             /\ reports' = reports /\ chan' = chan
             /\ closedReported' = closedReported]_vars
  /\ [](pc = "exited" => ~ENABLED AcceptStream /\ ~ENABLED OpenSubstream)
  /\ (~txAlive) ~> (pc = "exited")

\* C38, witness: both handlers exited while the open of substream 1 was pending and
\* the connection was open; the loop took what was queued and has exited without
\* reporting the connection closed
C38_Witness ==
  /\ pc = "exited" /\ conn = "open" /\ closedReported = 0
  /\ ~txAlive /\ rx = <<>>
  /\ made = 2
  /\ \E r \in reports : r.result = "ChannelClosed"

====
